---- MODULE Spec2Model ----
(***************************************************************************)
(* A model of check_hycu_vm_backup_v2.1.py, the HYCU monitoring plugin:    *)
(* one process execution parses its options, dispatches on the check type, *)
(* issues its HTTPS requests (or one TCP probe), prints its result and     *)
(* exits with a monitoring exit code.                                      *)
(*                                                                         *)
(* Text is modelled as a sequence of one-character strings, so that        *)
(* str.lower() and int() are computed and not assumed.  A printed line is  *)
(* a record [fmt, vals]: the format string of the print call and the       *)
(* values it interpolates, in order.                                       *)
(***************************************************************************)
EXTENDS Integers, Sequences, FiniteSets, TLC

VARIABLES
    argv,        \* the options as optparse delivered them (never changed)
    options,     \* the options object after parse_arguments
    pc,          \* position of the process in main()
    exit_code,   \* the process exit status, NoExit while running
    stdout,      \* the lines printed on standard output, in order
    stderr,      \* the lines printed on standard error, in order
    requests,    \* the HTTP GETs issued so far, in order: [endpoint, ok, data]
    probes,      \* the TCP connection attempts made so far, each with its outcome
    uuid,        \* main()'s uuid local (get_entity_uuid's result)
    fin,         \* the arguments of a handler called on its own (SpecChecks)
    fout         \* what that call returned

vars == <<argv, options, pc, exit_code, stdout, stderr, requests, probes, uuid,
          fin, fout>>

-----------------------------------------------------------------------------
(* Bounds of the model *)

\* thresholds -w / -c range over -1 .. MaxThreshold
MaxThreshold == 3
\* longest listing the shares and buckets checks are both run on
MaxLen == 2
\* longest listing ("entities" array) of a response
MaxEntities == 3

-----------------------------------------------------------------------------
(* Program constants *)

EXIT_OK == 0
EXIT_WARNING == 1
EXIT_CRITICAL == 2
EXIT_UNKNOWN == 3
\* optparse's parser.error(): "print a usage message ... and exit with status 2"
OPTPARSE_ERROR == 2
NoExit == -1

DEFAULT_WARNING == 5
DEFAULT_CRITICAL == 10
DEFAULT_PERIOD == 24
DEFAULT_TIMEOUT == 100
PORT_TIMEOUT_CAP == 30
MIN_PERIOD == 1
MAX_PERIOD == 168
MIN_PORT == 1
MAX_PORT == 65535
DEFAULT_PORT == 8443
\* how many available names the not-found messages list
MAX_NAMES_SHOWN == 5

CHECK_TYPES ==
    [objects    |-> <<"vm", "vmid", "target", "archive">>,
     policies   |-> <<"policy", "policy-advanced">>,
     global     |-> <<"manager", "jobs", "license", "version">>,
     storage    |-> <<"shares", "buckets">>,
     validation |-> <<"backup-validation", "unassigned">>,
     network    |-> <<"port">>]

\* the categories in the order the dictionary literal lists them
CATEGORIES == <<"objects", "policies", "global", "storage", "validation", "network">>

Range(s) == {s[i] : i \in DOMAIN s}

ALL_CHECK_TYPES == UNION {Range(CHECK_TYPES[k]) : k \in DOMAIN CHECK_TYPES}

-----------------------------------------------------------------------------
(* Text *)

\* None and the empty string: the code only ever tests their truthiness
Absent == <<>>

\* truthiness of a text (-n)
Truthy(x) == x # Absent

\* truthiness of an option kept as a plain string (-a, -l, -t); "" is None
Given(x) == x # ""

LowerChar(ch) ==
    CASE ch = "A" -> "a"
      [] ch = "B" -> "b"
      [] ch = "W" -> "w"
      [] OTHER -> ch

\* str.lower()
Lower(s) == [i \in DOMAIN s |-> LowerChar(s[i])]

Digits == {"0", "1", "2", "3", "4", "5", "6", "7", "8", "9"}

DigitVal(ch) ==
    CASE ch = "0" -> 0 [] ch = "1" -> 1 [] ch = "2" -> 2 [] ch = "3" -> 3
      [] ch = "4" -> 4 [] ch = "5" -> 5 [] ch = "6" -> 6 [] ch = "7" -> 7
      [] ch = "8" -> 8 [] ch = "9" -> 9

\* int(s) raises ValueError unless s is a decimal numeral
IsInt(s) == Len(s) > 0 /\ \A i \in DOMAIN s : s[i] \in Digits

RECURSIVE IntVal(_)
IntVal(s) ==
    IF Len(s) = 0 THEN 0
    ELSE IntVal(SubSeq(s, 1, Len(s) - 1)) * 10 + DigitVal(s[Len(s)])

T_port == <<"p", "o", "r", "t">>
T_protected == <<"p", "r", "o", "t", "e", "c", "t", "e", "d">>
T_compliance == <<"c", "o", "m", "p", "l", "i", "a", "n", "c", "e">>

\* a printed line
Line(f, v) == [fmt |-> f, vals |-> v]

-----------------------------------------------------------------------------
(* validate_thresholds, parse_arguments *)

Valid == [ok |-> TRUE, code |-> NoExit, out |-> <<>>, err |-> <<>>]

\* sys.exit(code) after printing `lines` on stdout
Exit(code, lines) == [ok |-> FALSE, code |-> code, out |-> lines, err |-> <<>>]

\* parser.error(msg): usage and message on stderr, exit status 2
ParserError(msg) ==
    [ok |-> FALSE, code |-> OPTPARSE_ERROR, out |-> <<>>,
     err |-> <<Line("usage", <<>>), Line(msg, <<>>)>>]

\* a validation that knows the normal ordering only
validate_thresholds_normal(warning, critical, inverted) ==
    IF warning < 0 \/ critical < 0 \/ critical < warning
    THEN Exit(EXIT_UNKNOWN, <<Line("ERROR: Thresholds must be positive integers", <<>>)>>)
    ELSE Valid

validate_thresholds(warning, critical, inverted) ==
    IF warning < 0 \/ critical < 0
    THEN Exit(EXIT_UNKNOWN, <<Line("ERROR: Thresholds must be positive integers", <<>>)>>)
    ELSE IF inverted
    THEN IF critical > warning
         THEN Exit(EXIT_UNKNOWN,
                   <<Line("ERROR: For license checks, critical threshold must be <= warning threshold", <<>>)>>)
         ELSE Valid
    ELSE IF critical < warning
         THEN Exit(EXIT_UNKNOWN,
                   <<Line("ERROR: Critical threshold must be >= warning threshold", <<>>)>>)
         ELSE Valid

types_without_vmtarget ==
    {"jobs", "license", "version", "backup-validation", "shares", "buckets", "unassigned"}

types_without_token == {"port"}

\* the check type as text, for the dummy vmtarget of line 128
TypeText(t) ==
    CASE t = "jobs" -> <<"j", "o", "b", "s">>
      [] t = "license" -> <<"l", "i", "c", "e", "n", "s", "e">>
      [] t = "version" -> <<"v", "e", "r", "s", "i", "o", "n">>
      [] t = "shares" -> <<"s", "h", "a", "r", "e", "s">>
      [] t = "buckets" -> <<"b", "u", "c", "k", "e", "t", "s">>
      [] t = "unassigned" -> <<"u", "n", "a", "s", "s", "i", "g", "n", "e", "d">>
      [] OTHER -> <<"b", "a", "c", "k", "u", "p", "-", "v", "a", "l", "i", "d", "a", "t", "i", "o", "n">>

PrintHelp == Exit(EXIT_UNKNOWN, <<Line("help", <<>>)>>)

\* a parser that requires no argument
NoRequiredArguments(o) == Valid

\* a parser that requires -n whatever the check type
AllRequiredArguments(o) ==
    IF ~(Given(o.apitoken) /\ Given(o.host) /\ Truthy(o.vmtarget) /\ Given(o.scantype))
    THEN PrintHelp ELSE Valid

\* lines 116-133: the required arguments of the check type
RequiredArguments(o) ==
    IF o.scantype \in types_without_vmtarget
    THEN IF o.scantype \in types_without_token
         THEN IF ~(Given(o.host) /\ Given(o.scantype)) THEN PrintHelp ELSE Valid
         ELSE IF ~(Given(o.apitoken) /\ Given(o.host) /\ Given(o.scantype))
              THEN PrintHelp ELSE Valid
    ELSE IF ~(Given(o.apitoken) /\ Given(o.host) /\ Truthy(o.vmtarget) /\ Given(o.scantype))
         THEN PrintHelp ELSE Valid

\* lines 126-128: the dummy vmtarget
WithDummyTarget(o) ==
    IF o.scantype \in types_without_vmtarget /\ ~Truthy(o.vmtarget)
    THEN [o EXCEPT !.vmtarget = TypeText(o.scantype)]
    ELSE o

PeriodCheck(o) ==
    IF o.period_hours < MIN_PERIOD \/ o.period_hours > MAX_PERIOD
    THEN ParserError("Period must be between 1 and 168 hours")
    ELSE Valid

\* lines 165-172: the port number given with -n
PortCheck(o) ==
    IF Truthy(o.vmtarget) /\ o.vmtarget # T_port
    THEN IF IsInt(o.vmtarget)
         THEN IF IntVal(o.vmtarget) < MIN_PORT \/ IntVal(o.vmtarget) > MAX_PORT
              THEN ParserError("Port number must be between 1 and 65535")
              ELSE Valid
         ELSE ParserError("Port number must be an integer")
    ELSE Valid

\* lines 143-172: the options of each check type
TypeOptions(o) ==
    LET thr(inv) == validate_thresholds(o.warning_threshold, o.critical_threshold, inv)
    IN  CASE o.scantype = "jobs" ->
               IF ~thr(FALSE).ok THEN thr(FALSE) ELSE PeriodCheck(o)
          [] o.scantype = "policy-advanced" -> thr(FALSE)
          [] o.scantype = "license" -> thr(TRUE)
          [] o.scantype \in {"shares", "buckets", "unassigned"} -> thr(FALSE)
          [] o.scantype = "backup-validation" ->
               IF ~thr(FALSE).ok THEN thr(FALSE) ELSE PeriodCheck(o)
          [] o.scantype = "port" -> PortCheck(o)
          [] OTHER -> Valid

\* parse_arguments: [ok, code, out, err] and, when ok, the options returned
parse_arguments(o) ==
    IF ~RequiredArguments(o).ok THEN RequiredArguments(o)
    ELSE IF o.scantype \notin ALL_CHECK_TYPES
    THEN Exit(EXIT_UNKNOWN,
              <<Line("ERROR: Invalid type '{}'.", <<o.scantype>>),
                Line("Available check types by category:", <<>>)>>
              \o [i \in DOMAIN CATEGORIES |->
                     Line("  {}: {}", <<CATEGORIES[i], CHECK_TYPES[CATEGORIES[i]]>>)])
    ELSE TypeOptions(WithDummyTarget(o))

-----------------------------------------------------------------------------
(* api_request *)

\* what the network can answer to one GET: a transport failure of requests.get,
\* or an HTTP response with a status and a body (a JSON document, or text that
\* does not parse)
Garbage == [malformed |-> TRUE]

Transport == {[kind |-> "timeout"], [kind |-> "connection"], [kind |-> "request"]}

HttpResponse(status, body) == [kind |-> "http", status |-> status, body |-> body]

\* the statuses the model's server answers with
STATUSES == {200, 201, 401, 403, 404, 418, 500, 503}

\* the answers that are not a 200 carrying `body`
Failures ==
    Transport \cup {HttpResponse(s, Garbage) : s \in STATUSES}

RaiseApi(f, v) == [ok |-> FALSE, error |-> Line(f, v)]

\* api_request: [ok |-> TRUE, data] or the HycuAPIError raised
api_request(resp) ==
    CASE resp.kind = "timeout" -> RaiseApi("Request timeout after {} seconds", <<"timeout">>)
      [] resp.kind = "connection" ->
            RaiseApi("Connection error. Check host address and network.", <<>>)
      [] resp.kind = "request" -> RaiseApi("Request failed: {}", <<"e">>)
      [] OTHER ->
            IF resp.status = 401
            THEN RaiseApi("Authentication failed. Check your API token.", <<>>)
            ELSE IF resp.status = 403
            THEN RaiseApi("Access forbidden. Check API token permissions.", <<>>)
            ELSE IF resp.status = 404
            THEN RaiseApi("Resource not found.", <<>>)
            ELSE IF resp.status >= 500
            THEN RaiseApi("HYCU server error: {}", <<resp.status>>)
            ELSE IF resp.status # 200
            THEN RaiseApi("HTTP {}: {}", <<resp.status, "text">>)
            ELSE IF "malformed" \in DOMAIN resp.body
            THEN RaiseApi("Invalid JSON response from API", <<>>)
            ELSE [ok |-> TRUE, data |-> resp.body]

\* the DEBUG lines api_request prints when verbose
api_request_debug(resp, endpoint, verbose) ==
    IF ~verbose THEN <<>>
    ELSE <<Line("DEBUG: Calling API: {}", <<endpoint>>)>>
         \o (IF resp.kind = "http"
             THEN <<Line("DEBUG: Status code: {}", <<resp.status>>)>>
             ELSE <<>>)

\* dict.get(key, default) on a JSON object
Get(d, k, default) == IF k \in DOMAIN d THEN d[k] ELSE default

-----------------------------------------------------------------------------
(* get_entity_uuid *)

None == "None"

\* a dict as Python keeps it: the keys in the order of their first insertion,
\* each with the value last stored under it
DictKeys(d) == {d[i].key : i \in DOMAIN d}

DictPut(d, k, v) ==
    IF k \in DictKeys(d)
    THEN [i \in DOMAIN d |-> IF d[i].key = k THEN [key |-> k, value |-> v] ELSE d[i]]
    ELSE Append(d, [key |-> k, value |-> v])

DictGet(d, k) ==
    IF k \in DictKeys(d)
    THEN (CHOOSE e \in Range(d) : e.key = k).value
    ELSE None

\* a mapping that keeps for a name the uuid of its first occurrence, which the
\* dict comprehension does not
RECURSIVE BuildDictFirstWins(_, _)
BuildDictFirstWins(entities, name_field) ==
    IF Len(entities) = 0 THEN <<>>
    ELSE LET last == entities[Len(entities)]
             rest == BuildDictFirstWins(SubSeq(entities, 1, Len(entities) - 1), name_field)
         IN  IF last[name_field] \in DictKeys(rest) THEN rest
             ELSE DictPut(rest, last[name_field], last.uuid)

\* {entity[name_field]: entity['uuid'] for entity in entities}
RECURSIVE BuildDict(_, _)
BuildDict(entities, name_field) ==
    IF Len(entities) = 0 THEN <<>>
    ELSE LET last == entities[Len(entities)]
         IN  DictPut(BuildDict(SubSeq(entities, 1, Len(entities) - 1), name_field),
                     last[name_field], last.uuid)

\* the last item whose key equals name ignoring case: a scan in reverse order
ScanLowerLast(d, name_lower, i) ==
    LET hits == {j \in i..Len(d) : Lower(d[j].key) = name_lower}
    IN  IF hits = {} THEN 0 ELSE CHOOSE j \in hits : \A k \in hits : k <= j

\* the first item, in iteration order, whose key equals name ignoring case
RECURSIVE ScanLower(_, _, _)
ScanLower(d, name_lower, i) ==
    IF i > Len(d) THEN 0
    ELSE IF Lower(d[i].key) = name_lower THEN i
    ELSE ScanLower(d, name_lower, i + 1)

\* get_entity_uuid on the parsed listing: the uuid returned (None when no match)
\* and the DEBUG lines printed
get_entity_uuid(data, name, name_field, endpoint, verbose) ==
    LET entity_dict == BuildDict(Get(data, "entities", <<>>), name_field)
        exact == DictGet(entity_dict, name)
        hit == ScanLower(entity_dict, Lower(name), 1)
        found == Line("DEBUG: Found {} {}", <<Len(entity_dict), endpoint>>)
        trying == Line("DEBUG: No exact match for '{}', trying case-insensitive search...", <<name>>)
        dbg(lines) == IF verbose THEN lines ELSE <<>>
    IN  IF exact # None
        THEN [uuid |-> exact,
              debug |-> dbg(<<found, Line("DEBUG: Exact match found for '{}'", <<name>>)>>)]
        ELSE IF hit # 0
        THEN [uuid |-> entity_dict[hit].value,
              debug |-> dbg(<<found, trying,
                              Line("DEBUG: Case-insensitive match found: '{}'",
                                   <<entity_dict[hit].key>>)>>)]
        ELSE [uuid |-> None,
              debug |-> dbg(<<found, trying,
                              Line("DEBUG: No match found for '{}'", <<name>>),
                              Line("DEBUG: Available names: {}...",
                                   <<[i \in 1..(IF Len(entity_dict) < 5 THEN Len(entity_dict) ELSE 5)
                                        |-> entity_dict[i].key]>>)>>)]

-----------------------------------------------------------------------------
(* The check handlers, each on the parsed document(s) api_request returned.  *)
(* A handler returns (exit_code, output) or raises; output is the printed    *)
(* text, one Line per line of it.                                            *)

Return(code, lines, debug) ==
    [kind |-> "return", exit_code |-> code, output |-> lines, debug |-> debug]

\* an exception other than HycuAPIError (KeyError, IndexError, ...)
Raise(exc, debug) ==
    [kind |-> "raise", exit_code |-> NoExit, output |-> <<Line(exc, <<>>)>>, debug |-> debug]

Debug(verbose, lines) == IF verbose THEN lines ELSE <<>>

\* data['entities'][0] raises KeyError without the key, IndexError on an empty list
FirstEntityError(data) ==
    IF "entities" \notin DOMAIN data THEN "KeyError: 'entities'"
    ELSE IF Len(data.entities) = 0 THEN "IndexError: list index out of range"
    ELSE ""

\* the {} of data.get('metadata', {})
EmptyDict == <<>>

\* a status table that takes FATAL for a warning, which the code does not
VmStatusMapLenient(st) ==
    CASE st = "OK" -> <<EXIT_OK, 2>>
      [] st = "WARNING" -> <<EXIT_WARNING, 1>>
      [] st = "FATAL" -> <<EXIT_WARNING, 1>>
      [] OTHER -> <<EXIT_UNKNOWN, 1>>

\* lines 336-342: status_map.get(backup_status, (EXIT_UNKNOWN, 1))
VmStatusMap(st) ==
    CASE st = "OK" -> <<EXIT_OK, 2>>
      [] st = "WARNING" -> <<EXIT_WARNING, 1>>
      [] st = "FATAL" -> <<EXIT_CRITICAL, 0>>
      [] OTHER -> <<EXIT_UNKNOWN, 1>>

check_vm_backup(data, vm_name, verbose) ==
    LET backup_count == Get(Get(data, "metadata", EmptyDict), "grandTotalEntityCount", 0)
        latest_backup == data.entities[1]
        backup_status == latest_backup.status
        status_map(st) == VmStatusMap(st)
    IN  IF backup_count = 0
        THEN Return(EXIT_CRITICAL,
                    <<Line("{} has no backups |backup_status=0;;;", <<vm_name>>)>>, <<>>)
        ELSE IF FirstEntityError(data) # "" THEN Raise(FirstEntityError(data), <<>>)
        ELSE IF "status" \notin DOMAIN latest_backup THEN Raise("KeyError: 'status'", <<>>)
        ELSE IF "type" \notin DOMAIN latest_backup THEN Raise("KeyError: 'type'", <<>>)
        ELSE Return(status_map(backup_status)[1],
                    <<Line("{} is {} for last {} |backup_status={};;;",
                           <<Get(latest_backup, "vmName", vm_name), backup_status,
                             latest_backup.type, status_map(backup_status)[2]>>)>>,
                    <<>>)

\* a health table that knows one spelling of grey only, which the code does not
HealthMapOneSpelling(h) ==
    CASE h = "GREEN" -> <<EXIT_OK, 2>>
      [] h = "GREY" -> <<EXIT_WARNING, 1>>
      [] h = "RED" -> <<EXIT_CRITICAL, 0>>
      [] OTHER -> <<EXIT_UNKNOWN, 1>>

\* lines 387-394: health_map.get(target_health, (EXIT_UNKNOWN, 1))
HealthMap(h) ==
    CASE h = "GREEN" -> <<EXIT_OK, 2>>
      [] h = "GREY" -> <<EXIT_WARNING, 1>>
      [] h = "RED" -> <<EXIT_CRITICAL, 0>>
      [] h = "GRAY" -> <<EXIT_WARNING, 1>>
      [] OTHER -> <<EXIT_UNKNOWN, 1>>

check_target_health(data, target_name, verbose) ==
    LET listed == "entities" \in DOMAIN data /\ Len(data.entities) > 0
        target_data == IF listed THEN data.entities[1] ELSE data
        target_health == Get(target_data, "health", "UNKNOWN")
        name_from_api == Get(target_data, "name", target_name)
        health_map(h) == HealthMap(h)
        debug == Debug(verbose,
                       <<Line("DEBUG: API response keys: {}", <<DOMAIN data>>),
                         IF listed
                         THEN Line("DEBUG: Response has 'entities' array, using entities[0]", <<>>)
                         ELSE Line("DEBUG: Response is direct object", <<>>),
                         Line("DEBUG: Target name: {}", <<name_from_api>>),
                         Line("DEBUG: Target health: {}", <<target_health>>)>>)
    IN  Return(health_map(target_health)[1],
               <<Line("{} is {} |target_health={};;;",
                      <<name_from_api, target_health, health_map(target_health)[2]>>)>>,
               debug)

\* a classification that looks at the ok counter first, which the code does not
ArchiveVerdictOkFirst(archives_ok, archives_failed) ==
    IF archives_ok >= 1 THEN <<"OK", EXIT_OK, 2>>
    ELSE IF archives_failed >= 1 THEN <<"FAILED", EXIT_CRITICAL, 0>>
    ELSE <<"MISSING", EXIT_WARNING, 1>>

\* lines 424-435: (archive_status, exit_code, numeric_status)
ArchiveVerdict(archives_ok, archives_failed) ==
    IF archives_failed >= 1 THEN <<"FAILED", EXIT_CRITICAL, 0>>
    ELSE IF archives_ok >= 1 THEN <<"OK", EXIT_OK, 2>>
    ELSE <<"MISSING", EXIT_WARNING, 1>>

\* a check that looks for the latest backup before the count of backups, which
\* the code does not
check_archive_status_by_entities(data, vm_name, verbose) ==
    IF FirstEntityError(data) # ""
    THEN Return(EXIT_CRITICAL,
                <<Line("{} has no backups |archive_status=0;;;", <<vm_name>>)>>, <<>>)
    ELSE LET latest_backup == data.entities[1]
             archives_ok == Get(latest_backup, "numberOfArchives", 0)
             archives_failed == Get(latest_backup, "numberOfFailedArchives", 0)
             verdict == ArchiveVerdict(archives_ok, archives_failed)
         IN  Return(verdict[2],
                    <<Line("{} archive is {} for last {} |archive_status={};;; archives_ok={};;; archives_failed={};;;",
                           <<Get(latest_backup, "vmName", vm_name), verdict[1],
                             Get(latest_backup, "type", None), verdict[3], archives_ok,
                             archives_failed>>)>>,
                    <<>>)

check_archive_status(data, vm_name, verbose) ==
    LET backup_count == Get(Get(data, "metadata", EmptyDict), "grandTotalEntityCount", 0)
        latest_backup == data.entities[1]
        archives_ok == Get(latest_backup, "numberOfArchives", 0)
        archives_failed == Get(latest_backup, "numberOfFailedArchives", 0)
        verdict == ArchiveVerdict(archives_ok, archives_failed)
    IN  IF backup_count = 0
        THEN Return(EXIT_CRITICAL,
                    <<Line("{} has no backups |archive_status=0;;;", <<vm_name>>)>>, <<>>)
        ELSE IF FirstEntityError(data) # "" THEN Raise(FirstEntityError(data), <<>>)
        ELSE IF "type" \notin DOMAIN latest_backup THEN Raise("KeyError: 'type'", <<>>)
        ELSE Return(verdict[2],
                    <<Line("{} archive is {} for last {} |archive_status={};;; archives_ok={};;; archives_failed={};;;",
                           <<Get(latest_backup, "vmName", vm_name), verdict[1],
                             latest_backup.type, verdict[3], archives_ok, archives_failed>>)>>,
                    <<>>)

\* a status table whose metric does not tell RED from WARNING, which the code's
\* does
PolicyStatusMapFlat(st) ==
    CASE st = "GREEN" -> <<EXIT_OK, 2>>
      [] st = "WARNING" -> <<EXIT_WARNING, 1>>
      [] st = "RED" -> <<EXIT_CRITICAL, 1>>
      [] OTHER -> <<EXIT_UNKNOWN, 1>>

\* lines 462-468: status_map.get(policy_status, (EXIT_UNKNOWN, 1))
PolicyStatusMap(st) ==
    CASE st = "GREEN" -> <<EXIT_OK, 2>>
      [] st = "WARNING" -> <<EXIT_WARNING, 1>>
      [] st = "RED" -> <<EXIT_CRITICAL, 0>>
      [] OTHER -> <<EXIT_UNKNOWN, 1>>

check_policy_compliance(data, policy_name, verbose) ==
    LET policy == data.entities[1]
        policy_status == Get(policy, "compliancyStatus", "UNKNOWN")
        compliant_vms == Get(policy, "compliantVmsCount", 0)
        status_map(st) == PolicyStatusMap(st)
    IN  IF FirstEntityError(data) # "" THEN Raise(FirstEntityError(data), <<>>)
        ELSE Return(status_map(policy_status)[1],
                    <<Line("{} is {} including {} VMs |policy_status={};;; compliant_vms={};;;",
                           <<Get(policy, "name", policy_name), policy_status, compliant_vms,
                             status_map(policy_status)[2], compliant_vms>>)>>,
                    <<>>)

\* a protected sub-mode that reads the red-compliance counter, which the code
\* does not
check_manager_protected_red(data, verbose) ==
    IF FirstEntityError(data) # "" THEN Raise(FirstEntityError(data), <<>>)
    ELSE Return(IF Get(data.entities[1], "compliancyRedCount", 0) = 0
                THEN EXIT_OK ELSE EXIT_CRITICAL,
                <<Line("{} VMs not protected", <<0>>)>>, <<>>)

check_manager_protected(data, verbose) ==
    LET dashboard == data.entities[1]
        total_count == Get(dashboard, "totalCount", 0)
        protected_count == Get(dashboard, "protectedCount", 0)
        unprotected_count == Get(dashboard, "unprotectedCount", 0)
    IN  IF FirstEntityError(data) # "" THEN Raise(FirstEntityError(data), <<>>)
        ELSE Return(IF unprotected_count = 0 THEN EXIT_OK ELSE EXIT_CRITICAL,
                    <<Line("{} VMs not protected out of {} total |vms_unprotected={};;; vms_protected={};;; vms_total={};;;",
                           <<unprotected_count, total_count, unprotected_count,
                             protected_count, total_count>>)>>,
                    <<>>)

check_manager_compliance(data, verbose) ==
    LET dashboard == data.entities[1]
        compliance_green == Get(dashboard, "compliancyGreenCount", 0)
        compliance_red == Get(dashboard, "compliancyRedCount", 0)
        compliance_grey == Get(dashboard, "compliancyGreyCount", 0)
    IN  IF FirstEntityError(data) # "" THEN Raise(FirstEntityError(data), <<>>)
        ELSE Return(IF compliance_red = 0 THEN EXIT_OK ELSE EXIT_CRITICAL,
                    <<Line("{} VMs with non-compliant backups |vms_noncompliant={};;; vms_compliant={};;; vms_unknown={};;;",
                           <<compliance_red, compliance_red, compliance_green,
                             compliance_grey>>)>>,
                    <<>>)

\* the classification with both comparisons strict, which no handler uses
CountVerdictStrict(count, warning_threshold, critical_threshold) ==
    IF count > critical_threshold THEN <<EXIT_CRITICAL, "CRITICAL">>
    ELSE IF count > warning_threshold THEN <<EXIT_WARNING, "WARNING">>
    ELSE <<EXIT_OK, "OK">>

\* the three-way comparison of the count checks: (exit_code, status_label);
\* lines 809-818 and their copies in the other count checks
CountVerdict(count, warning_threshold, critical_threshold) ==
    IF count >= critical_threshold THEN <<EXIT_CRITICAL, "CRITICAL">>
    ELSE IF count >= warning_threshold THEN <<EXIT_WARNING, "WARNING">>
    ELSE <<EXIT_OK, "OK">>

\* bool(data.get('entities')): the key is there and the list is not empty
HasEntities(data) == "entities" \in DOMAIN data /\ Len(data.entities) > 0

\* the inverted classification with both comparisons strict, which is not used
LicenseVerdictStrict(days_left, warning_days, critical_days) ==
    IF days_left < critical_days THEN <<EXIT_CRITICAL, "CRITICAL">>
    ELSE IF days_left < warning_days THEN <<EXIT_WARNING, "WARNING">>
    ELSE <<EXIT_OK, "OK">>

\* lines 904-913
LicenseVerdict(days_left, warning_days, critical_days) ==
    IF days_left <= critical_days THEN <<EXIT_CRITICAL, "CRITICAL">>
    ELSE IF days_left <= warning_days THEN <<EXIT_WARNING, "WARNING">>
    ELSE <<EXIT_OK, "OK">>

check_license(data, warning_days, critical_days, verbose) ==
    LET lic == data.entities[1]
        days_left == Get(lic, "daysLeft", 0)
        status == Get(lic, "status", "UNKNOWN")
        licensed_vms == Get(lic, "licensedVms", 0)
        protected_vms == Get(lic, "protectedVms", 0)
        licensed_sockets == Get(lic, "licensedSockets", 0)
        actual_sockets == Get(lic, "actualSockets", 0)
        exp_date_str == IF Get(lic, "expirationDate", 0) # 0 THEN "date" ELSE "N/A"
        verdict == LicenseVerdict(days_left, warning_days, critical_days)
        debug == Debug(verbose,
                       <<Line("DEBUG: License status: {}", <<status>>),
                         Line("DEBUG: Days left: {}", <<days_left>>),
                         Line("DEBUG: VMs: {}/{}", <<protected_vms, licensed_vms>>),
                         Line("DEBUG: Sockets: {}/{}", <<actual_sockets, licensed_sockets>>)>>)
    IN  IF ~HasEntities(data)
        THEN Return(EXIT_CRITICAL, <<Line("CRITICAL: No license information found", <<>>)>>, <<>>)
        ELSE Return(verdict[1],
                    <<Line("{}: License '{}' - {} days left (expires {}), Status: {}, VMs: {}/{}, Sockets: {}/{} |days_left={};{};{};0; vms_protected={};;;0;{} vms_licensed={};;;0; sockets_actual={};;;0;{} sockets_licensed={};;;0;",
                           <<verdict[2], Get(lic, "companyName", "N/A"), days_left, exp_date_str,
                             status, protected_vms, licensed_vms, actual_sockets,
                             licensed_sockets, days_left, warning_days, critical_days,
                             protected_vms, licensed_vms, licensed_vms, actual_sockets,
                             licensed_sockets, licensed_sockets>>)>>,
                    debug)

\* a version check that takes the missing record for a failure, which the code
\* does not
check_version_strict(data, verbose) ==
    IF ~HasEntities(data)
    THEN Return(EXIT_CRITICAL,
                <<Line("CRITICAL: Controller information not available", <<>>)>>, <<>>)
    ELSE Return(EXIT_OK, <<Line("OK: HYCU Controller", <<>>)>>, <<>>)

check_version(data, verbose) ==
    LET ctrl == data.entities[1]
        controller_name == Get(ctrl, "controllerVmName", "N/A")
        software_version == Get(ctrl, "softwareVersion", "N/A")
        build_version == Get(ctrl, "buildVersion", "N/A")
        hypervisor_type == Get(ctrl, "externalHypervisorType", "N/A")
        debug == Debug(verbose,
                       <<Line("DEBUG: Controller: {}", <<controller_name>>),
                         Line("DEBUG: Version: {}", <<software_version>>),
                         Line("DEBUG: Build: {}", <<build_version>>),
                         Line("DEBUG: Hypervisor: {}", <<hypervisor_type>>)>>)
    IN  IF ~HasEntities(data)
        THEN Return(EXIT_WARNING,
                    <<Line("WARNING: Controller information not available", <<>>)>>, <<>>)
        ELSE Return(EXIT_OK,
                    <<Line("OK: HYCU Controller '{}' - Version {} (Build {}), Hypervisor: {}",
                           <<controller_name, software_version, build_version,
                             hypervisor_type>>)>>,
                    debug)

-----------------------------------------------------------------------------
(* The count checks *)

Front(s) == SubSeq(s, 1, Len(s) - 1)

Last(s) == s[Len(s)]

\* str.upper() on the status vocabulary of the jobs listing
Upper(st) ==
    CASE st = "Warning" -> "WARNING"
      [] st = "error" -> "ERROR"
      [] st = "ok" -> "OK"
      [] OTHER -> st

\* the exact quotient a / b * 100, which the trailer prints with two decimals
Rate(a, b) == IF b > 0 THEN <<a * 100, b>> ELSE <<100, 1>>

\* check_jobs' loop over data['entities']
RECURSIVE JobStats(_)
JobStats(entities) ==
    IF Len(entities) = 0
    THEN [ok |-> 0, warning |-> 0, error |-> 0, running |-> 0, other |-> 0,
          failed_jobs |-> <<>>]
    ELSE LET st == JobStats(Front(entities))
             job == Last(entities)
             status == Upper(Get(job, "status", "UNKNOWN"))
             failed == [name |-> Get(job, "taskName", "Unknown task"), status |-> status,
                        type |-> Get(job, "type", "UNKNOWN")]
         IN  IF status = "OK" THEN [st EXCEPT !.ok = @ + 1]
             ELSE IF status = "WARNING"
             THEN [st EXCEPT !.warning = @ + 1, !.failed_jobs = Append(@, failed)]
             ELSE IF status = "ERROR"
             THEN [st EXCEPT !.error = @ + 1, !.failed_jobs = Append(@, failed)]
             ELSE IF status \in {"RUNNING", "QUEUED", "PENDING"}
             THEN [st EXCEPT !.running = @ + 1]
             ELSE [st EXCEPT !.other = @ + 1]

check_jobs(data, period_hours, warning_threshold, critical_threshold, verbose) ==
    LET st == JobStats(Get(data, "entities", <<>>))
        total == IF "metadata" \in DOMAIN data
                 THEN Get(data.metadata, "grandTotalEntityCount", 0) ELSE 0
        failed == st.warning + st.error
        completed_jobs == st.ok + st.warning + st.error
        verdict == CountVerdict(failed, warning_threshold, critical_threshold)
        shown == IF Len(st.failed_jobs) < 10 THEN Len(st.failed_jobs) ELSE 10
        details ==
            IF verbose /\ failed > 0
            THEN <<Line("", <<>>), Line("Failed Jobs Details:", <<>>)>>
                 \o [i \in 1..shown |->
                       Line("  - [{}] {} (Type: {})",
                            <<st.failed_jobs[i].status, st.failed_jobs[i].name,
                              st.failed_jobs[i].type>>)]
                 \o (IF Len(st.failed_jobs) > 10
                     THEN <<Line("  ... and {} more failed jobs", <<Len(st.failed_jobs) - 10>>)>>
                     ELSE <<>>)
            ELSE <<>>
        debug == Debug(verbose,
                       <<Line("DEBUG: Time range:", <<period_hours>>)>>
                       \o (IF "metadata" \in DOMAIN data
                           THEN <<Line("DEBUG: Total jobs in period: {}", <<total>>)>>
                           ELSE <<>>)
                       \o (IF "entities" \in DOMAIN data
                           THEN <<Line("DEBUG: Jobs processed: {}", <<Len(data.entities)>>),
                                  Line("DEBUG: Status breakdown:",
                                       <<st.ok, st.warning, st.error, st.running>>)>>
                           ELSE <<>>))
    IN  Return(verdict[1],
               <<Line("{}: HYCU jobs over {}h - {} failed ({} errors, {} warnings), {} successful, {} running |jobs_ok={};;;0; jobs_warning={};;;0; jobs_error={};;;0; jobs_failed={};{};{};0; jobs_running={};;;0; success_rate={}%;;;0;100",
                      <<verdict[2], period_hours, failed, st.error, st.warning, st.ok,
                        st.running, st.ok, st.warning, st.error, failed, warning_threshold,
                        critical_threshold, st.running, Rate(st.ok, completed_jobs)>>)>>
               \o details,
               debug)

\* 'VALIDATION' in job_type or 'RESTORE_VALIDATE' in job_type, on the job types
\* of the model's listings
IsValidationType(job_type) ==
    job_type \in {"VALIDATION", "BACKUP_VALIDATION", "RESTORE_VALIDATE", "RESTORE_VALIDATE_VM"}

\* check_backup_validation's loop
RECURSIVE ValidationStats(_)
ValidationStats(entities) ==
    IF Len(entities) = 0
    THEN [total |-> 0, ok |-> 0, warning |-> 0, error |-> 0]
    ELSE LET st == ValidationStats(Front(entities))
             job == Last(entities)
             status == Upper(Get(job, "status", "UNKNOWN"))
         IN  IF ~IsValidationType(Get(job, "type", "")) THEN st
             ELSE IF status = "OK" THEN [st EXCEPT !.total = @ + 1, !.ok = @ + 1]
             ELSE IF status = "WARNING" THEN [st EXCEPT !.total = @ + 1, !.warning = @ + 1]
             ELSE IF status = "ERROR" THEN [st EXCEPT !.total = @ + 1, !.error = @ + 1]
             ELSE [st EXCEPT !.total = @ + 1]

check_backup_validation(data, period_hours, warning_threshold, critical_threshold, verbose) ==
    LET st == ValidationStats(Get(data, "entities", <<>>))
        failed == st.warning + st.error
        verdict == CountVerdict(failed, warning_threshold, critical_threshold)
        debug == Debug(verbose,
                       <<Line("DEBUG: Checking backup validations from {} to {}", <<period_hours>>),
                         Line("DEBUG: Total validations: {}", <<st.total>>),
                         Line("DEBUG: OK: {}, Failed: {}", <<st.ok, failed>>)>>)
    IN  Return(verdict[1],
               <<Line("{}: Backup validations over {}h - {} failed ({} errors, {} warnings), {} successful |validations_total={};;;0; validations_ok={};;;0; validations_failed={};{};{};0;",
                      <<verdict[2], period_hours, failed, st.error, st.warning, st.ok,
                        st.total, st.ok, failed, warning_threshold, critical_threshold>>)>>,
               debug)

\* any(p in ['NFS', 'SMB'] for p in protocols)
IsShare(entry) ==
    \E p \in Range(Get(entry, "protocolTypeList", <<>>)) : p \in {"NFS", "SMB"}

\* 'S3' in protocols
IsBucket(entry) == "S3" \in Range(Get(entry, "protocolTypeList", <<>>))

\* the body of the loops of check_shares and check_buckets for an entry kept
StorageCount(st, entry) ==
    LET status == Get(entry, "status", "UNKNOWN")
        compliancy_status == Get(entry, "compliancyStatus", "UNKNOWN")
    IN  IF status \notin {"PROTECTED", "UNPROTECTED"} THEN st
        ELSE IF status = "PROTECTED"
        THEN IF compliancy_status = "GREEN"
             THEN [st EXCEPT !.total = @ + 1, !.protected = @ + 1, !.compliant = @ + 1]
             ELSE IF compliancy_status \in {"RED", "YELLOW"}
             THEN [st EXCEPT !.total = @ + 1, !.protected = @ + 1, !.non_compliant = @ + 1]
             ELSE [st EXCEPT !.total = @ + 1, !.protected = @ + 1]
        ELSE [st EXCEPT !.total = @ + 1, !.unprotected = @ + 1]

StorageZero ==
    [total |-> 0, protected |-> 0, compliant |-> 0, non_compliant |-> 0, unprotected |-> 0]

\* check_shares' loop
RECURSIVE ShareStats(_)
ShareStats(entities) ==
    IF Len(entities) = 0 THEN StorageZero
    ELSE IF ~IsShare(Last(entities)) THEN ShareStats(Front(entities))
    ELSE StorageCount(ShareStats(Front(entities)), Last(entities))

\* check_buckets' loop
RECURSIVE BucketStats(_)
BucketStats(entities) ==
    IF Len(entities) = 0 THEN StorageZero
    ELSE IF ~IsBucket(Last(entities)) THEN BucketStats(Front(entities))
    ELSE StorageCount(BucketStats(Front(entities)), Last(entities))

check_shares(data, warning_threshold, critical_threshold, verbose) ==
    LET st == ShareStats(Get(data, "entities", <<>>))
        verdict == CountVerdict(st.non_compliant, warning_threshold, critical_threshold)
        debug == Debug(verbose,
                       <<Line("DEBUG: Total NFS/SMB shares: {}", <<st.total>>),
                         Line("DEBUG: Protected: {}, Compliant: {}", <<st.protected, st.compliant>>),
                         Line("DEBUG: Non-compliant: {}", <<st.non_compliant>>)>>)
    IN  Return(verdict[1],
               <<Line("{}: Shares (NFS/SMB) - {}/{} compliant, {} non-compliant, {} unprotected |shares_total={};;;0; shares_compliant={};;;0; shares_non_compliant={};{};{};0; shares_unprotected={};;;0;",
                      <<verdict[2], st.compliant, st.total, st.non_compliant, st.unprotected,
                        st.total, st.compliant, st.non_compliant, warning_threshold,
                        critical_threshold, st.unprotected>>)>>,
               debug)

check_buckets(data, warning_threshold, critical_threshold, verbose) ==
    LET st == BucketStats(Get(data, "entities", <<>>))
        verdict == CountVerdict(st.non_compliant, warning_threshold, critical_threshold)
        debug == Debug(verbose,
                       <<Line("DEBUG: Total S3 buckets: {}", <<st.total>>),
                         Line("DEBUG: Protected: {}, Compliant: {}", <<st.protected, st.compliant>>),
                         Line("DEBUG: Non-compliant: {}", <<st.non_compliant>>)>>)
    IN  Return(verdict[1],
               <<Line("{}: Buckets (S3) - {}/{} compliant, {} non-compliant, {} unprotected |buckets_total={};;;0; buckets_compliant={};;;0; buckets_non_compliant={};{};{};0; buckets_unprotected={};;;0;",
                      <<verdict[2], st.compliant, st.total, st.non_compliant, st.unprotected,
                        st.total, st.compliant, st.non_compliant, warning_threshold,
                        critical_threshold, st.unprotected>>)>>,
               debug)

-----------------------------------------------------------------------------
(* policy-advanced, and the not-found messages *)

Min(a, b) == IF a < b THEN a ELSE b

\* a search that keeps the last policy named so ignoring case, which the loop
\* with its break does not
PolicyFindLast(entities, policy_name_lower, i) ==
    LET hits == {j \in i..Len(entities) : Lower(entities[j].name) = policy_name_lower}
    IN  IF hits = {} THEN 0 ELSE CHOOSE j \in hits : \A k \in hits : k <= j

\* check_policy_advanced's search loop: the index of the first policy whose name
\* equals policy_name ignoring case, 0 when the loop ends without a break
RECURSIVE PolicyFind(_, _, _)
PolicyFind(entities, policy_name_lower, i) ==
    IF i > Len(entities) THEN 0
    ELSE IF Lower(entities[i].name) = policy_name_lower THEN i
    ELSE PolicyFind(entities, policy_name_lower, i + 1)

\* a not-found message that names every entity of the listing
NotFoundLinesAll(what, plural, again, name) ==
    IF ~again.ok \/ Len(Get(again.data, "entities", <<>>)) = 0
    THEN <<Line("CRITICAL: {} '{}' does not exist", <<what, name>>)>>
    ELSE <<Line("CRITICAL: {} '{}' does not exist", <<what, name>>),
           Line("Available {}: {}",
                <<plural, [i \in DOMAIN again.data.entities |-> again.data.entities[i].name]>>)>>

\* the lines printed before sys.exit(EXIT_CRITICAL) when the name is not found:
\* `again` is what api_request gave for the listing fetched a second time
\* (lines 513-528 for a policy, 1582-1597 for a target)
NotFoundLines(what, plural, again, name) ==
    LET available_names ==
            [i \in DOMAIN Get(again.data, "entities", <<>>) |-> again.data.entities[i].name]
    IN  IF ~again.ok
        THEN <<Line("CRITICAL: {} '{}' does not exist", <<what, name>>)>>
        ELSE IF Len(available_names) > 0
        THEN <<Line("CRITICAL: {} '{}' does not exist", <<what, name>>),
               Line("Available {}: {}",
                    <<plural, SubSeq(available_names, 1,
                                     Min(MAX_NAMES_SHOWN, Len(available_names)))>>)>>
             \o (IF Len(available_names) > MAX_NAMES_SHOWN
                 THEN <<Line("... and {} more", <<Len(available_names) - MAX_NAMES_SHOWN>>)>>
                 ELSE <<>>)
        ELSE <<Line("CRITICAL: {} '{}' does not exist (no {} found)", <<what, name, plural>>)>>

\* the counters of the policy's detail document, by kind of object: VMs,
\* shares, applications, buckets, volume groups (lines 543-567)
TOTAL_FIELDS == <<"vmsCount", "sharesCount", "appsCount", "bucketsCount", "vgsCount">>

COMPLIANT_FIELDS ==
    <<"compliantVmsCount", "compliantSharesCount", "compliantAppsCount",
      "compliantBucketsCount", "compliantVgsCount">>

UNCOMPLIANT_FIELDS ==
    <<"uncompliantVmsCount", "uncompliantSharesCount", "uncompliantAppsCount",
      "uncompliantBucketsCount", "uncompliantVgsCount">>

\* a total that counts the VMs only, which the code does not
PolicyTotalVmsOnly(policy, fields) == Get(policy, fields[1], 0)

\* stats['total_objects'], ['total_compliant'], ['total_uncompliant'] (570-580)
PolicyTotal(policy, fields) ==
    Get(policy, fields[1], 0) + Get(policy, fields[2], 0) + Get(policy, fields[3], 0)
    + Get(policy, fields[4], 0) + Get(policy, fields[5], 0)

\* check_policy_advanced from "Step 2" on, on the policy's detail document
policy_advanced_detail(data, warning_threshold, critical_threshold, verbose) ==
    LET policy == data.entities[1]
        n(field) == Get(policy, field, 0)
        total_objects == PolicyTotal(policy, TOTAL_FIELDS)
        total_compliant == PolicyTotal(policy, COMPLIANT_FIELDS)
        total_uncompliant == PolicyTotal(policy, UNCOMPLIANT_FIELDS)
        compliance_rate == Rate(total_compliant, total_objects)
        verdict == CountVerdict(total_uncompliant, warning_threshold, critical_threshold)
        debug == Debug(verbose,
                       <<Line("DEBUG: Policy compliance status: {}",
                              <<Get(policy, "compliancyStatus", None)>>),
                         Line("DEBUG: Statistics:",
                              <<total_objects, total_compliant, total_uncompliant,
                                compliance_rate>>),
                         Line("DEBUG: Breakdown:", <<>>)>>)
        details ==
            IF verbose
            THEN <<Line("", <<>>), Line("Detailed Breakdown:", <<>>),
                   Line("  VMs: {}/{} compliant", <<n("compliantVmsCount"), n("vmsCount")>>),
                   Line("  Shares: {}/{} compliant",
                        <<n("compliantSharesCount"), n("sharesCount")>>),
                   Line("  Applications: {}/{} compliant",
                        <<n("compliantAppsCount"), n("appsCount")>>),
                   Line("  Buckets: {}/{} compliant",
                        <<n("compliantBucketsCount"), n("bucketsCount")>>)>>
                 \o (IF n("vgsCount") > 0
                     THEN <<Line("  Volume Groups: {}/{} compliant",
                                 <<n("compliantVgsCount"), n("vgsCount")>>)>>
                     ELSE <<>>)
                 \o <<Line("  Compliance Rate: {}%", <<compliance_rate>>)>>
            ELSE <<>>
    IN  IF FirstEntityError(data) # "" THEN Raise(FirstEntityError(data), <<>>)
        ELSE Return(verdict[1],
                    <<Line("{}: Policy '{}' - {}/{} objects compliant ({}/{} VMs, {}/{} shares, {}/{} apps, {}/{} buckets, {}/{} VGs) |total_objects={};;;0; compliant={};;;0; uncompliant={};{};{};0; vms_compliant={};;;0;{} vms_uncompliant={};;;0;{} shares_compliant={};;;0;{} shares_uncompliant={};;;0;{} apps_compliant={};;;0;{} apps_uncompliant={};;;0;{} compliance_rate={}%;;;0;100",
                           <<verdict[2], Get(policy, "name", None), total_compliant,
                             total_objects,
                             n("compliantVmsCount"), n("vmsCount"),
                             n("compliantSharesCount"), n("sharesCount"),
                             n("compliantAppsCount"), n("appsCount"),
                             n("compliantBucketsCount"), n("bucketsCount"),
                             n("compliantVgsCount"), n("vgsCount"),
                             total_objects, total_compliant, total_uncompliant,
                             warning_threshold, critical_threshold,
                             n("compliantVmsCount"), n("vmsCount"),
                             n("uncompliantVmsCount"), n("vmsCount"),
                             n("compliantSharesCount"), n("sharesCount"),
                             n("uncompliantSharesCount"), n("sharesCount"),
                             n("compliantAppsCount"), n("appsCount"),
                             n("uncompliantAppsCount"), n("appsCount"),
                             compliance_rate>>)>>
                    \o details,
                    debug)

-----------------------------------------------------------------------------
(* port *)

\* what the TCP connection attempt can do: connect_ex returns 0 or an errno, or
\* the attempt raises socket.gaierror, socket.timeout or another exception
ConnectOutcomes == {"open", "errno", "gaierror", "timeout", "exception"}

\* a probe that takes a closed port for a warning and words every failure
\* alike, which the code does not
check_port_lenient(outcome, elapsed_ms, host, port, timeout, verbose) ==
    CASE outcome = "open" ->
           Return(EXIT_OK, <<Line("OK: Port {} is OPEN on {}", <<port, host>>)>>, <<>>)
      [] outcome = "errno" ->
           Return(EXIT_WARNING, <<Line("WARNING: Port {} is CLOSED on {}", <<port, host>>)>>, <<>>)
      [] OTHER ->
           Return(EXIT_CRITICAL, <<Line("CRITICAL: Port check failed - {}", <<"e">>)>>, <<>>)

check_port(outcome, elapsed_ms, host, port, timeout, verbose) ==
    LET debug0 == Debug(verbose,
                        <<Line("DEBUG: Testing TCP connection to {}:{}", <<host, port>>),
                          Line("DEBUG: Timeout: {} seconds", <<timeout>>)>>)
    IN  CASE outcome = "open" ->
               Return(EXIT_OK,
                      <<Line("OK: Port {} is OPEN on {} (response time: {}ms) |response_time={}ms;;;0;",
                             <<port, host, elapsed_ms, elapsed_ms>>)>>,
                      debug0 \o Debug(verbose,
                                      <<Line("DEBUG: Connection result code: {}", <<0>>),
                                        Line("DEBUG: Response time: {}ms", <<elapsed_ms>>)>>))
          [] outcome = "errno" ->
               Return(EXIT_CRITICAL,
                      <<Line("CRITICAL: Port {} is CLOSED on {} |response_time=0ms;;;0;",
                             <<port, host>>)>>,
                      debug0 \o Debug(verbose,
                                      <<Line("DEBUG: Connection result code: {}", <<"errno">>),
                                        Line("DEBUG: Response time: {}ms", <<elapsed_ms>>)>>))
          [] outcome = "gaierror" ->
               Return(EXIT_CRITICAL,
                      <<Line("CRITICAL: Cannot resolve hostname {} - DNS error", <<host>>)>>,
                      debug0 \o Debug(verbose, <<Line("DEBUG: DNS resolution failed: {}", <<"e">>)>>))
          [] outcome = "timeout" ->
               Return(EXIT_CRITICAL,
                      <<Line("CRITICAL: Port {} on {} - Connection timeout after {}s",
                             <<port, host, timeout>>)>>,
                      debug0 \o Debug(verbose,
                                      <<Line("DEBUG: Connection timeout after {} seconds",
                                             <<timeout>>)>>))
          [] OTHER ->
               Return(EXIT_CRITICAL,
                      <<Line("CRITICAL: Port check failed - {}", <<"e">>)>>,
                      debug0 \o Debug(verbose, <<Line("DEBUG: Unexpected error: {}", <<"e">>)>>))

-----------------------------------------------------------------------------
(* unassigned *)

\* the `data` local before its first assignment
Unbound == [unbound |-> TRUE]

\* check_unassigned's locals: unassigned_objects (stats[k] is always the length
\* of unassigned_objects[k]) and data
UnassignedStart ==
    [vms |-> <<>>, shares |-> <<>>, buckets |-> <<>>, apps |-> <<>>, vgs |-> <<>>,
     data |-> Unbound]

\* `not protection_group`: the field is absent, null or empty
Unassigned(entry) == Get(entry, "protectionGroupName", "") = ""

\* the names one of the five loops appends: kind selects the protocol filter
RECURSIVE UnassignedNames(_, _, _)
UnassignedNames(entities, kind, name_field) ==
    IF Len(entities) = 0 THEN <<>>
    ELSE LET rest == UnassignedNames(Front(entities), kind, name_field)
             entry == Last(entities)
             kept == CASE kind = "shares" -> IsShare(entry)
                       [] kind = "buckets" -> IsBucket(entry)
                       [] OTHER -> TRUE
         IN  IF kept /\ Unassigned(entry)
             THEN Append(rest, Get(entry, name_field, "Unknown"))
             ELSE rest

\* lines 1360-1373: r is what api_request gave for /vms
unassigned_vms(st, r) ==
    IF r.ok
    THEN [st EXCEPT !.data = r.data,
                    !.vms = UnassignedNames(Get(r.data, "entities", <<>>), "all", "vmName")]
    ELSE st

\* lines 1379-1419: r is what api_request gave for /shares; the buckets loop
\* then reads `data` whatever it holds (a NameError while it is unbound is
\* caught by the loop's own try)
unassigned_shares(st, r) ==
    LET after == IF r.ok
                 THEN [st EXCEPT !.data = r.data,
                                 !.shares = UnassignedNames(Get(r.data, "entities", <<>>),
                                                            "shares", "shareName")]
                 ELSE st
    IN  IF "unbound" \in DOMAIN after.data THEN after
        ELSE [after EXCEPT !.buckets = UnassignedNames(Get(after.data, "entities", <<>>),
                                                       "buckets", "shareName")]

\* lines 1425-1439
unassigned_apps(st, r) ==
    IF r.ok
    THEN [st EXCEPT !.data = r.data,
                    !.apps = UnassignedNames(Get(r.data, "entities", <<>>), "all", "name")]
    ELSE st

\* lines 1445-1459
unassigned_vgs(st, r) ==
    IF r.ok
    THEN [st EXCEPT !.data = r.data,
                    !.vgs = UnassignedNames(Get(r.data, "entities", <<>>), "all", "name")]
    ELSE st

\* one entry of `details`: the first ten names and how many more there are
Detail(label, names) ==
    IF Len(names) > 0
    THEN <<[label |-> label, names |-> SubSeq(names, 1, Min(10, Len(names))),
            more |-> IF Len(names) > 10 THEN Len(names) - 10 ELSE 0]>>
    ELSE <<>>

\* lines 1461-1538: the result, from the locals after the four fetches
unassigned_result(st, warning_threshold, critical_threshold, verbose) ==
    LET total == Len(st.vms) + Len(st.shares) + Len(st.buckets) + Len(st.apps) + Len(st.vgs)
        verdict == CountVerdict(total, warning_threshold, critical_threshold)
        details == Detail("VMs", st.vms) \o Detail("Shares", st.shares)
                   \o Detail("Buckets", st.buckets) \o Detail("Apps", st.apps)
                   \o Detail("VGs", st.vgs)
        counts == <<verdict[2], total, Len(st.vms), Len(st.shares), Len(st.buckets),
                    Len(st.apps), Len(st.vgs)>>
        perf == <<total, warning_threshold, critical_threshold, Len(st.vms), Len(st.shares),
                  Len(st.buckets), Len(st.apps), Len(st.vgs)>>
    IN  Return(verdict[1],
               IF Len(details) > 0
               THEN <<Line("{}: {} unassigned objects - {} VMs, {} shares, {} buckets, {} apps, {} VGs | {} |unassigned_total={};{};{};0; unassigned_vms={};;;0; unassigned_shares={};;;0; unassigned_buckets={};;;0; unassigned_apps={};;;0; unassigned_vgs={};;;0;",
                           counts \o <<details>> \o perf)>>
               ELSE <<Line("{}: {} unassigned objects - {} VMs, {} shares, {} buckets, {} apps, {} VGs |unassigned_total={};{};{};0; unassigned_vms={};;;0; unassigned_shares={};;;0; unassigned_buckets={};;;0; unassigned_apps={};;;0; unassigned_vgs={};;;0;",
                           counts \o perf)>>,
               Debug(verbose,
                     <<Line("DEBUG: Unassigned objects summary:",
                            <<Len(st.vms), Len(st.shares), Len(st.buckets), Len(st.apps),
                              Len(st.vgs), total>>)>>))

\* check_unassigned on the four answers of the network
check_unassigned(r_vms, r_shares, r_apps, r_vgs, warning_threshold, critical_threshold, verbose) ==
    unassigned_result(
        unassigned_vgs(
            unassigned_apps(
                unassigned_shares(unassigned_vms(UnassignedStart, api_request(r_vms)),
                                  api_request(r_shares)),
                api_request(r_apps)),
            api_request(r_vgs)),
        warning_threshold, critical_threshold, verbose)

-----------------------------------------------------------------------------
(* What the API can hold: the documents the model's server answers with *)

SeqsUpTo(S, n) == UNION {[1..k -> S] : k \in 0..n}

\* a document without the 'entities' key
NoEntitiesDoc == [metadata |-> [grandTotalEntityCount |-> 0]]

Listing(entities) ==
    [entities |-> entities, metadata |-> [grandTotalEntityCount |-> Len(entities)]]

Listings(S, n) == {Listing(es) : es \in SeqsUpTo(S, n)} \cup {NoEntitiesDoc}

\* entity names: three spellings of one name, and another name
N_ab == <<"a", "b">>
N_Ab == <<"A", "b">>
N_AB == <<"A", "B">>
N_w == <<"w">>
\* a name no listing of the model holds
N_zz == <<"z", "z">>

NAMES == {N_ab, N_Ab, N_AB, N_w}

\* identifiers are never empty; the i-th entity of a listing has the i-th one
UUIDS == <<"u1", "u2", "u3", "u4", "u5", "u6", "u7", "u8">>

\* the listings of named entities of length n, the uuid following the position
NamedListings(names, name_field, n) ==
    {Listing([i \in DOMAIN ns |->
                 IF name_field = "vmName"
                 THEN [vmName |-> ns[i], uuid |-> UUIDS[i]]
                 ELSE [name |-> ns[i], uuid |-> UUIDS[i]]]) : ns \in SeqsUpTo(names, n)}
    \cup {NoEntitiesDoc}

\* jobs as /jobs lists them
JobEntries ==
    {[status |-> st, type |-> "BACKUP", taskName |-> "task"] :
        st \in {"OK", "WARNING", "Warning", "ERROR", "RUNNING"}}
    \cup {[type |-> "BACKUP"]}

ValidationJobEntries ==
    {[status |-> "ERROR", type |-> "BACKUP_VALIDATION"],
     [status |-> "WARNING", type |-> "RESTORE_VALIDATE"],
     [status |-> "OK", type |-> "BACKUP_VALIDATION"],
     [status |-> "ERROR", type |-> "BACKUP"],
     [status |-> "ERROR"]}

\* shares and buckets as /shares lists them
PROTOCOL_LISTS == {<<"NFS">>, <<"S3">>, <<"NFS", "S3">>, <<"FTP">>}

StorageEntries ==
    {[protocolTypeList |-> pl, status |-> "PROTECTED", compliancyStatus |-> cs] :
        pl \in PROTOCOL_LISTS, cs \in {"GREEN", "RED", "GREY"}}
    \cup {[protocolTypeList |-> pl, status |-> st] :
            pl \in PROTOCOL_LISTS, st \in {"UNPROTECTED", "UNDEFINED"}}
    \cup {[status |-> "PROTECTED", compliancyStatus |-> "RED"]}

\* the entries the threshold checks of shares and of buckets are run on, each
\* tagged with one protocol
Stored(pl, st, cs) == [protocolTypeList |-> pl, status |-> st, compliancyStatus |-> cs]

ShareEntriesFew ==
    {Stored(<<"NFS">>, "PROTECTED", "GREEN"), Stored(<<"NFS">>, "PROTECTED", "RED"),
     Stored(<<"SMB">>, "PROTECTED", "YELLOW"), Stored(<<"NFS">>, "UNDEFINED", "RED"),
     Stored(<<"S3">>, "PROTECTED", "RED")}

BucketEntriesFew ==
    {Stored(<<"S3">>, "PROTECTED", "GREEN"), Stored(<<"S3">>, "PROTECTED", "RED"),
     Stored(<<"S3">>, "PROTECTED", "YELLOW"), Stored(<<"S3">>, "UNDEFINED", "RED"),
     Stored(<<"NFS">>, "PROTECTED", "RED")}

\* the detail document of a policy: each uncompliant counter absent, 0 or 1
PolicyDetails ==
    {Listing(<<[f \in fs \cup {"name", "vmsCount", "compliantVmsCount"} |->
                  CASE f = "name" -> N_ab
                    [] f = "vmsCount" -> 2
                    [] f = "compliantVmsCount" -> 1
                    [] OTHER -> IF f \in ones THEN 1 ELSE 0]>>) :
        fs \in SUBSET Range(UNCOMPLIANT_FIELDS), ones \in SUBSET Range(UNCOMPLIANT_FIELDS)}

\* policies that hold, of each kind of object, none (no counter in the
\* document), one compliant object, or one compliant and one non-compliant
KindOf(f) ==
    CHOOSE k \in 1..5 : f \in {TOTAL_FIELDS[k], COMPLIANT_FIELDS[k], UNCOMPLIANT_FIELDS[k]}

PolicyDetailsByKind ==
    {Listing(<<[f \in {"name"} \cup UNION {{TOTAL_FIELDS[k], COMPLIANT_FIELDS[k],
                                             UNCOMPLIANT_FIELDS[k]} :
                                                k \in {j \in 1..5 : ch[j] # "none"}} |->
                  IF f = "name" THEN N_ab
                  ELSE IF f = TOTAL_FIELDS[KindOf(f)]
                  THEN (IF ch[KindOf(f)] = "one" THEN 1 ELSE 2)
                  ELSE IF f = COMPLIANT_FIELDS[KindOf(f)] THEN 1
                  ELSE (IF ch[KindOf(f)] = "one" THEN 0 ELSE 1)]>>) :
        ch \in [1..5 -> {"none", "one", "two"}]}

\* an answer of the network carrying the document d
Ok(d) == HttpResponse(200, d)

\* one failed answer stands for all of them where the kind of failure is not read
Failed == [kind |-> "timeout"]

\* the license record
LicenseDocs(days) ==
    {Listing(<<[daysLeft |-> d, companyName |-> "acme", status |-> "ACTIVE"]>>) : d \in days}
    \cup {Listing(<<[companyName |-> "acme"]>>), Listing(<<>>), NoEntitiesDoc}

\* the threshold pairs parse_arguments lets through: normal, and inverted
ValidPairs == {p \in (0..MaxThreshold) \X (0..MaxThreshold) : p[2] >= p[1]}

InvertedPairs ==
    {p \in (0..MaxThreshold) \X (0..MaxThreshold) : p[2] <= p[1]} \cup {<<30, 7>>}

-----------------------------------------------------------------------------
(* One execution of the plugin: what optparse can deliver, and what the     *)
(* server can answer to each request                                        *)

TOKENS == {"", "TOKEN"}

HOSTS == {"", "hycu"}

SCANTYPES == ALL_CHECK_TYPES \cup {"", "bogus"}

THRESHOLD_TYPES ==
    {"jobs", "policy-advanced", "license", "backup-validation", "shares", "buckets",
     "unassigned"}

PERIOD_TYPES == {"jobs", "backup-validation"}

P_8443 == <<"8", "4", "4", "3">>
P_0 == <<"0">>
P_65536 == <<"6", "5", "5", "3", "6">>

\* the values of -n tried with a check type
TargetsOf(t) ==
    CASE t \in {"vm", "archive", "target", "policy", "policy-advanced"} ->
            {Absent, N_ab, N_zz}
      [] t = "manager" -> {Absent, T_protected, T_compliance, N_ab}
      [] t = "port" -> {Absent, T_port, P_8443, P_0, P_65536, N_ab}
      [] OTHER -> {Absent, N_ab}

\* -w / -c: every pair of -1 .. MaxThreshold, the defaults, and the usual 30 / 7
\* of a license check; the defaults alone where the thresholds are not read
ThresholdsOf(t) ==
    IF t \in THRESHOLD_TYPES
    THEN ((-1..MaxThreshold) \X (-1..MaxThreshold))
         \cup {<<DEFAULT_WARNING, DEFAULT_CRITICAL>>}
         \cup (IF t = "license" THEN {<<30, 7>>} ELSE {})
    ELSE {<<DEFAULT_WARNING, DEFAULT_CRITICAL>>}

\* -p: the default, the ends of the range and their neighbours
PeriodsOf(t) ==
    IF t \in PERIOD_TYPES
    THEN {MIN_PERIOD - 1, MIN_PERIOD, DEFAULT_PERIOD, MAX_PERIOD, MAX_PERIOD + 1}
    ELSE {DEFAULT_PERIOD}

\* the options objects optparse delivers (integer options hold integers:
\* optparse itself refuses any other text for -w, -c, -p and -T)
CommandLines ==
    UNION {{[apitoken |-> a, host |-> h, vmtarget |-> n, scantype |-> t,
             warning_threshold |-> p[1], critical_threshold |-> p[2],
             period_hours |-> hours, timeout |-> DEFAULT_TIMEOUT, verbose |-> v] :
               a \in TOKENS, h \in HOSTS, n \in TargetsOf(t), p \in ThresholdsOf(t),
               hours \in PeriodsOf(t), v \in BOOLEAN} : t \in SCANTYPES}

\* a listing longer than the names a not-found message shows
LongListing ==
    Listing([i \in 1..(MAX_NAMES_SHOWN + 1) |->
                [name |-> IF i = 1 THEN N_AB ELSE <<"w", UUIDS[i]>>, vmName |-> N_w,
                 uuid |-> UUIDS[i]]])

\* the listings /vms, /targets and /policies answer with
ListingDocs(name_field) ==
    NamedListings({N_ab, N_AB, N_w}, name_field, MaxLen) \cup {LongListing}

BackupDocs ==
    {Listing(<<>>),
     Listing(<<[status |-> "OK", type |-> "FULL", vmName |-> N_ab, numberOfArchives |-> 1,
                numberOfFailedArchives |-> 0]>>),
     Listing(<<[status |-> "FATAL", type |-> "INCR", numberOfFailedArchives |-> 1]>>),
     Listing(<<[status |-> "WARNING", type |-> "INCR"]>>),
     [metadata |-> [grandTotalEntityCount |-> 1]]}

TargetDocs ==
    {[name |-> N_ab, health |-> "GREEN"],
     Listing(<<[name |-> N_ab, health |-> "RED"]>>),
     [name |-> N_ab, health |-> "GREY"],
     [uuid |-> "u1"]}

PolicyDocs ==
    {Listing(<<[name |-> N_ab, compliancyStatus |-> "GREEN", compliantVmsCount |-> 2]>>),
     Listing(<<[name |-> N_ab, compliancyStatus |-> "RED", compliantVmsCount |-> 0]>>),
     Listing(<<[name |-> N_ab]>>),
     Listing(<<>>)}

PolicyDetailDocs ==
    {Listing(<<[name |-> N_ab, vmsCount |-> 2, compliantVmsCount |-> 2]>>),
     Listing(<<[name |-> N_ab, vmsCount |-> 2, compliantVmsCount |-> 1,
                uncompliantVmsCount |-> 1, sharesCount |-> 1, uncompliantSharesCount |-> 1]>>),
     Listing(<<>>)}

DashboardDocs ==
    {Listing(<<[totalCount |-> 2, protectedCount |-> 2, unprotectedCount |-> 0,
                compliancyGreenCount |-> 2, compliancyRedCount |-> 0,
                compliancyGreyCount |-> 0]>>),
     Listing(<<[totalCount |-> 2, protectedCount |-> 1, unprotectedCount |-> 1,
                compliancyGreenCount |-> 1, compliancyRedCount |-> 1,
                compliancyGreyCount |-> 0]>>),
     Listing(<<[totalCount |-> 2, protectedCount |-> 1, unprotectedCount |-> 1,
                compliancyGreenCount |-> 2, compliancyRedCount |-> 0]>>),
     Listing(<<[totalCount |-> 3, protectedCount |-> 3, unprotectedCount |-> 0,
                compliancyGreenCount |-> 1, compliancyRedCount |-> 2]>>),
     Listing(<<[totalCount |-> 0]>>),
     NoEntitiesDoc}

ControllerDocs ==
    {Listing(<<[controllerVmName |-> "ctrl", softwareVersion |-> "5.1",
                buildVersion |-> "b1", externalHypervisorType |-> "AHV"]>>),
     Listing(<<[controllerVmName |-> "ctrl"]>>),
     Listing(<<>>), NoEntitiesDoc}

JobDocs ==
    Listings({[status |-> "ERROR", type |-> "BACKUP", taskName |-> "task"],
              [status |-> "OK", type |-> "BACKUP_VALIDATION"],
              [status |-> "WARNING", type |-> "RESTORE_VALIDATE"]}, MaxLen)

ShareDocs ==
    Listings({Stored(<<"NFS">>, "PROTECTED", "RED"), Stored(<<"S3">>, "PROTECTED", "RED"),
              Stored(<<"NFS", "S3">>, "PROTECTED", "GREEN")}, MaxLen)

\* the four answers check_unassigned gets
VmAnswers ==
    {Failed, Ok(NoEntitiesDoc), Ok(Listing(<<[vmName |-> N_ab]>>)),
     Ok(Listing(<<[vmName |-> N_ab], [vmName |-> N_w, protectionGroupName |-> "gold"],
                  [vmName |-> N_AB, protectionGroupName |-> ""]>>)),
     Ok(Listing(<<[vmName |-> N_w, protocolTypeList |-> <<"S3">>]>>))}

ShareAnswers ==
    {Failed, Ok(Listing(<<>>)),
     Ok(Listing(<<[shareName |-> N_ab, protocolTypeList |-> <<"S3">>]>>)),
     Ok(Listing(<<[shareName |-> N_w, protocolTypeList |-> <<"NFS", "S3">>]>>)),
     Ok(Listing(<<[shareName |-> N_ab, protocolTypeList |-> <<"NFS">>],
                  [shareName |-> N_AB, protocolTypeList |-> <<"S3">>],
                  [shareName |-> N_w, protocolTypeList |-> <<"SMB">>,
                   protectionGroupName |-> "gold"],
                  [shareName |-> N_Ab, protocolTypeList |-> <<"S3">>,
                   protectionGroupName |-> "gold"]>>))}

AppAnswers ==
    {Failed, Ok(Listing(<<>>)),
     Ok(Listing(<<[name |-> N_ab], [name |-> N_w, protectionGroupName |-> "gold"]>>))}

\* what the network can answer to a request the server would answer with one
\* of docs
Answers(docs) == {Ok(d) : d \in docs} \cup Failures

-----------------------------------------------------------------------------
(* main(): one action per step of the run, a step ending at the next        *)
(* request or at the exit                                                   *)

\* no handler is called on its own while the process runs
NoCall == [fn |-> "main"]

NoResult == [kind |-> "none"]

Init ==
    /\ argv \in CommandLines
    /\ options = argv
    /\ pc = "parse"
    /\ exit_code = NoExit
    /\ stdout = <<>>
    /\ stderr = <<>>
    /\ requests = <<>>
    /\ probes = <<>>
    /\ uuid = None
    /\ fin = NoCall
    /\ fout = NoResult

\* sys.exit(code) with `out` and `err` printed so far
Exits(out, err, code) ==
    /\ stdout' = out
    /\ stderr' = err
    /\ exit_code' = code
    /\ pc' = "done"

\* the process goes on to position `next` with `out` printed so far
Continues(out, next) ==
    /\ stdout' = out
    /\ pc' = next
    /\ UNCHANGED <<stderr, exit_code>>

\* how a run ends: what it has printed on the two channels and its exit code
Ended(out, err, code) == [stdout |-> out, stderr |-> err, exit_code |-> code]

\* lines 1750-1752, or the handler of `except Exception` (1758-1763), after
\* `out` and `err` were printed
Outcome(out, err, result, verbose) ==
    IF result.kind = "return"
    THEN Ended(out \o result.debug \o result.output, err, result.exit_code)
    ELSE Ended(out \o result.debug
                   \o <<Line("UNKNOWN: Unexpected error - {}", <<result.output[1].fmt>>)>>,
               err \o (IF verbose THEN <<Line("traceback", <<>>)>> ELSE <<>>),
               EXIT_UNKNOWN)

\* the handler of `except HycuAPIError` (1754-1756)
ApiOutcome(out, err, error) ==
    Ended(out \o <<Line("CRITICAL: API Error - {}", <<error>>)>>, err, EXIT_CRITICAL)

Finishes(out, result) ==
    LET e == Outcome(out, stderr, result, options.verbose)
    IN  Exits(e.stdout, e.stderr, e.exit_code)

ApiError(out, error) ==
    LET e == ApiOutcome(out, stderr, error)
    IN  Exits(e.stdout, e.stderr, e.exit_code)

\* the record of one GET in `requests`, with the answer it got
Sent(endpoint, id, resp) ==
    [endpoint |-> endpoint, id |-> id, ok |-> api_request(resp).ok,
     data |-> IF api_request(resp).ok THEN resp.body ELSE Garbage, answer |-> resp]

ParseArguments ==
    /\ pc = "parse"
    /\ LET r == parse_arguments(argv)
       IN  IF r.ok
           THEN /\ options' = WithDummyTarget(argv)
                /\ pc' = "run"
                /\ UNCHANGED <<stdout, stderr, exit_code>>
           ELSE /\ Exits(r.out, r.err, r.code)
                /\ UNCHANGED options
    /\ UNCHANGED <<argv, requests, probes, uuid, fin, fout>>

\* a handler that issues one request, answered by resp, and gives `result` on
\* the document received
OneRequest(endpoint, id, resp, result) ==
    LET r == api_request(resp)
        out == stdout \o api_request_debug(resp, endpoint, options.verbose)
    IN  /\ requests' = Append(requests, Sent(endpoint, id, resp))
        /\ IF r.ok THEN Finishes(out, result) ELSE ApiError(out, r.error)
        /\ UNCHANGED <<argv, options, probes, uuid, fin, fout>>

\* the listing endpoint and the name field of the types resolved by name
EndpointOf(t) ==
    CASE t \in {"vm", "archive"} -> "vms"
      [] t = "target" -> "targets"
      [] OTHER -> "policies"

NameFieldOf(t) == IF t \in {"vm", "archive"} THEN "vmName" ELSE "name"

\* lines 1554-1561, 1577-1581, 1606-1613, 1622-1629: the name is looked up
GetEntityUuid ==
    /\ pc = "run"
    /\ options.scantype \in {"vm", "target", "archive", "policy"}
    /\ \E resp \in Answers(ListingDocs(NameFieldOf(options.scantype))) :
          LET t == options.scantype
              r == api_request(resp)
              out == stdout \o api_request_debug(resp, EndpointOf(t), options.verbose)
              found == get_entity_uuid(r.data, options.vmtarget, NameFieldOf(t),
                                       EndpointOf(t), options.verbose)
          IN  /\ requests' = Append(requests, Sent(EndpointOf(t), "", resp))
              /\ IF ~r.ok
                 THEN ApiError(out, r.error) /\ UNCHANGED uuid
                 ELSE /\ uuid' = found.uuid
                      /\ IF found.uuid # None
                         THEN Continues(out \o found.debug, "check")
                         ELSE IF t = "target"
                         THEN Continues(out \o found.debug, "available")
                         ELSE Exits(out \o found.debug
                                        \o <<Line("CRITICAL: {} '{}' does not exist",
                                                  <<IF t = "policy" THEN "Policy" ELSE "VM",
                                                    options.vmtarget>>)>>,
                                    stderr, EXIT_CRITICAL)
    /\ UNCHANGED <<argv, options, probes, fin, fout>>

\* lines 1582-1597: the targets are listed again for the message
TargetAvailable ==
    /\ pc = "available"
    /\ \E resp \in Answers(ListingDocs("name")) :
          /\ requests' = Append(requests, Sent("targets", "", resp))
          /\ Exits(stdout \o api_request_debug(resp, "targets", options.verbose)
                          \o NotFoundLines("Target", "targets", api_request(resp),
                                           options.vmtarget),
                   stderr, EXIT_CRITICAL)
    /\ UNCHANGED <<argv, options, probes, uuid, fin, fout>>

CheckVmBackup ==
    /\ \/ pc = "check" /\ options.scantype = "vm"
       \/ pc = "run" /\ options.scantype = "vmid"
    /\ \E resp \in Answers(BackupDocs) :
          OneRequest("vms/{}/backups",
                     IF options.scantype = "vmid" THEN options.vmtarget ELSE uuid, resp,
                     check_vm_backup(resp.body, options.vmtarget, options.verbose))

CheckTargetHealth ==
    /\ pc = "check" /\ options.scantype = "target"
    /\ \E resp \in Answers(TargetDocs) :
          OneRequest("targets/{}", uuid, resp,
                     check_target_health(resp.body, options.vmtarget, options.verbose))

CheckArchiveStatus ==
    /\ pc = "check" /\ options.scantype = "archive"
    /\ \E resp \in Answers(BackupDocs) :
          OneRequest("vms/{}/backups", uuid, resp,
                     check_archive_status(resp.body, options.vmtarget, options.verbose))

CheckPolicyCompliance ==
    /\ pc = "check" /\ options.scantype = "policy"
    /\ \E resp \in Answers(PolicyDocs) :
          OneRequest("policies/{}", uuid, resp,
                     check_policy_compliance(resp.body, options.vmtarget, options.verbose))

\* lines 493-511: check_policy_advanced lists the policies and looks for the name
PolicyAdvancedSearch ==
    /\ pc = "run"
    /\ options.scantype = "policy-advanced"
    /\ \E resp \in Answers(ListingDocs("name")) :
          LET r == api_request(resp)
              out == stdout
                     \o Debug(options.verbose,
                              <<Line("DEBUG: Searching for policy '{}'", <<options.vmtarget>>)>>)
                     \o api_request_debug(resp, "policies", options.verbose)
              entities == Get(r.data, "entities", <<>>)
              hit == PolicyFind(entities, Lower(options.vmtarget), 1)
          IN  /\ requests' = Append(requests, Sent("policies", "", resp))
              /\ IF ~r.ok
                 THEN ApiError(out, r.error) /\ UNCHANGED uuid
                 ELSE IF hit = 0
                 THEN Continues(out, "policy_available") /\ uuid' = None
                 ELSE /\ uuid' = entities[hit].uuid
                      /\ Continues(out \o Debug(options.verbose,
                                                <<Line("DEBUG: Policy found: {}",
                                                       <<entities[hit].name>>),
                                                  Line("DEBUG: UUID: {}",
                                                       <<entities[hit].uuid>>)>>),
                                   "policy_detail")
    /\ UNCHANGED <<argv, options, probes, fin, fout>>

\* lines 513-528: the policies are listed again for the message
PolicyAdvancedAvailable ==
    /\ pc = "policy_available"
    /\ \E resp \in Answers(ListingDocs("name")) :
          /\ requests' = Append(requests, Sent("policies", "", resp))
          /\ Exits(stdout \o api_request_debug(resp, "policies", options.verbose)
                          \o NotFoundLines("Policy", "policies", api_request(resp),
                                           options.vmtarget),
                   stderr, EXIT_CRITICAL)
    /\ UNCHANGED <<argv, options, probes, uuid, fin, fout>>

\* lines 530-652
PolicyAdvancedDetail ==
    /\ pc = "policy_detail"
    /\ \E resp \in Answers(PolicyDetailDocs) :
          OneRequest("policies/{}", uuid, resp,
                     policy_advanced_detail(resp.body, options.warning_threshold, options.critical_threshold, options.verbose))

\* lines 1653-1655: -n is neither protected nor compliance
ManagerUsage ==
    /\ pc = "run"
    /\ options.scantype = "manager"
    /\ options.vmtarget \notin {T_protected, T_compliance}
    /\ Exits(stdout \o <<Line("ERROR: For manager type, use -n protected or -n compliance",
                              <<>>)>>,
             stderr, EXIT_UNKNOWN)
    /\ UNCHANGED <<argv, options, requests, probes, uuid, fin, fout>>

CheckManagerProtected ==
    /\ pc = "run" /\ options.scantype = "manager" /\ options.vmtarget = T_protected
    /\ \E resp \in Answers(DashboardDocs) :
          OneRequest("mom/dashboards/vms", "", resp,
                     check_manager_protected(resp.body, options.verbose))

CheckManagerCompliance ==
    /\ pc = "run" /\ options.scantype = "manager" /\ options.vmtarget = T_compliance
    /\ \E resp \in Answers(DashboardDocs) :
          OneRequest("mom/dashboards/vms", "", resp,
                     check_manager_compliance(resp.body, options.verbose))

CheckJobs ==
    /\ pc = "run" /\ options.scantype = "jobs"
    /\ \E resp \in Answers(JobDocs) :
          OneRequest("jobs", "", resp,
                     check_jobs(resp.body, options.period_hours, options.warning_threshold, options.critical_threshold, options.verbose))

CheckLicense ==
    /\ pc = "run" /\ options.scantype = "license"
    /\ \E resp \in Answers(LicenseDocs({0, 7, 31})) :
          OneRequest("administration/license", "", resp,
                     check_license(resp.body, options.warning_threshold, options.critical_threshold, options.verbose))

CheckVersion ==
    /\ pc = "run" /\ options.scantype = "version"
    /\ \E resp \in Answers(ControllerDocs) :
          OneRequest("administration/controller", "", resp,
                     check_version(resp.body, options.verbose))

CheckBackupValidation ==
    /\ pc = "run" /\ options.scantype = "backup-validation"
    /\ \E resp \in Answers(JobDocs) :
          OneRequest("jobs", "", resp,
                     check_backup_validation(resp.body, options.period_hours, options.warning_threshold, options.critical_threshold, options.verbose))

CheckShares ==
    /\ pc = "run" /\ options.scantype = "shares"
    /\ \E resp \in Answers(ShareDocs) :
          OneRequest("shares", "", resp,
                     check_shares(resp.body, options.warning_threshold, options.critical_threshold, options.verbose))

CheckBuckets ==
    /\ pc = "run" /\ options.scantype = "buckets"
    /\ \E resp \in Answers(ShareDocs) :
          OneRequest("shares", "", resp,
                     check_buckets(resp.body, options.warning_threshold, options.critical_threshold, options.verbose))

\* lines 1717-1734: the port of -n (8443 without one), the timeout capped, and
\* one TCP connection attempt
CheckPort ==
    /\ pc = "run" /\ options.scantype = "port"
    /\ \E outcome \in ConnectOutcomes :
          LET port == IF Truthy(options.vmtarget) /\ options.vmtarget # T_port
                      THEN IntVal(options.vmtarget) ELSE DEFAULT_PORT
          IN  /\ probes' = Append(probes, [host |-> options.host, port |-> port,
                                            outcome |-> outcome])
              /\ Finishes(stdout, check_port(outcome, 1, options.host, port,
                                             Min(options.timeout, PORT_TIMEOUT_CAP),
                                             options.verbose))
    /\ UNCHANGED <<argv, options, requests, uuid, fin, fout>>

\* the DEBUG lines of check_unassigned's five sections
UnassignedDebug(ok_vms, ok_shares, ok_apps, ok_vgs) ==
    LET section(what, ok) ==
            <<Line("DEBUG: Checking unassigned {}...", <<what>>)>>
            \o (IF ok THEN <<>> ELSE <<Line("DEBUG: Error checking {}: {}", <<what, "e">>)>>)
    IN  section("VMs", ok_vms) \o section("shares", ok_shares)
        \o section("buckets", ok_vms \/ ok_shares)
        \o section("applications", ok_apps) \o section("volume groups", ok_vgs)

\* check_unassigned: four requests, none of which ends the check
CheckUnassigned ==
    /\ pc = "run" /\ options.scantype = "unassigned"
    /\ \E r_vms \in VmAnswers, r_shares \in ShareAnswers, r_apps \in AppAnswers,
          r_vgs \in AppAnswers :
          /\ requests' = requests \o <<Sent("vms", "", r_vms), Sent("shares", "", r_shares),
                                       Sent("applications", "", r_apps),
                                       Sent("volumegroups", "", r_vgs)>>
          /\ Finishes(stdout \o Debug(options.verbose,
                                      UnassignedDebug(api_request(r_vms).ok,
                                                      api_request(r_shares).ok,
                                                      api_request(r_apps).ok,
                                                      api_request(r_vgs).ok)),
                      check_unassigned(r_vms, r_shares, r_apps, r_vgs,
                                       options.warning_threshold,
                                       options.critical_threshold, options.verbose))
    /\ UNCHANGED <<argv, options, probes, uuid, fin, fout>>

Next ==
    \/ ParseArguments
    \/ GetEntityUuid
    \/ TargetAvailable
    \/ CheckVmBackup
    \/ CheckTargetHealth
    \/ CheckArchiveStatus
    \/ CheckPolicyCompliance
    \/ PolicyAdvancedSearch
    \/ PolicyAdvancedAvailable
    \/ PolicyAdvancedDetail
    \/ ManagerUsage
    \/ CheckManagerProtected
    \/ CheckManagerCompliance
    \/ CheckJobs
    \/ CheckLicense
    \/ CheckVersion
    \/ CheckBackupValidation
    \/ CheckShares
    \/ CheckBuckets
    \/ CheckPort
    \/ CheckUnassigned

Spec == Init /\ [][Next]_vars

-----------------------------------------------------------------------------
(* The handlers called on their own: SpecChecks draws the arguments of one  *)
(* call and runs it.                                                        *)

Pending == [kind |-> "pending"]

JobsInputs ==
    {[fn |-> "check_jobs", data |-> d, w |-> p[1], c |-> p[2], verbose |-> v] :
        d \in Listings(JobEntries, MaxEntities), p \in ValidPairs, v \in BOOLEAN}

ValidationInputs ==
    {[fn |-> "check_backup_validation", data |-> d, w |-> p[1], c |-> p[2], verbose |-> v] :
        d \in Listings(ValidationJobEntries, MaxEntities), p \in ValidPairs, v \in BOOLEAN}

SharesInputs ==
    {[fn |-> "check_shares", data |-> d, w |-> p[1], c |-> p[2], verbose |-> v] :
        d \in Listings(ShareEntriesFew, MaxEntities), p \in ValidPairs, v \in BOOLEAN}

BucketsInputs ==
    {[fn |-> "check_buckets", data |-> d, w |-> p[1], c |-> p[2], verbose |-> v] :
        d \in Listings(BucketEntriesFew, MaxEntities), p \in ValidPairs, v \in BOOLEAN}

\* one listing handed to check_shares and to check_buckets
StorageInputs ==
    {[fn |-> "storage", data |-> d, w |-> DEFAULT_WARNING, c |-> DEFAULT_CRITICAL,
      verbose |-> FALSE] : d \in Listings(StorageEntries, MaxLen)}

PolicyAdvancedInputs ==
    {[fn |-> "check_policy_advanced", data |-> d, w |-> p[1], c |-> p[2], verbose |-> v] :
        d \in PolicyDetails \cup PolicyDetailsByKind \cup {Listing(<<>>), NoEntitiesDoc},
        p \in ValidPairs,
        v \in BOOLEAN}

UnassignedInputs ==
    {[fn |-> "check_unassigned", vms |-> a, shares |-> b, apps |-> x, vgs |-> y,
      w |-> p[1], c |-> p[2], verbose |-> v] :
        a \in VmAnswers, b \in ShareAnswers, x \in AppAnswers, y \in AppAnswers,
        p \in ValidPairs, v \in BOOLEAN}

\* days_left around the thresholds, and the 7 / 30 / 31 of the usual -w 30 -c 7
DaysLeft == (-1..(MaxThreshold + 1)) \cup {7, 30, 31}

LicenseInputs ==
    {[fn |-> "check_license", data |-> d, w |-> p[1], c |-> p[2], verbose |-> v] :
        d \in LicenseDocs(DaysLeft), p \in InvertedPairs, v \in BOOLEAN}

ThresholdInputs ==
    {[fn |-> "validate_thresholds", w |-> w, c |-> c, inverted |-> inv] :
        w \in -1..MaxThreshold, c \in -1..MaxThreshold, inv \in BOOLEAN}

ResolverInputs ==
    UNION {{[fn |-> "get_entity_uuid", data |-> d, name |-> n, name_field |-> f,
             verbose |-> v] :
               d \in NamedListings(NAMES, f, MaxEntities), n \in NAMES \cup {N_zz},
               v \in BOOLEAN} : f \in {"vmName", "name"}}

\* the answers a GET can get: a transport failure, or any status of the model
\* with a body that is JSON or is not
ApiRequestInputs ==
    {[fn |-> "api_request", resp |-> r, verbose |-> v] :
        r \in Transport \cup {HttpResponse(st, b) : st \in STATUSES,
                                                   b \in {Garbage, NoEntitiesDoc, Listing(<<>>)}},
        v \in BOOLEAN}

\* the backups of a VM as /vms/{uuid}/backups lists them, the latest first: each
\* archive counter absent or in 0 .. MaxThreshold
ArchiveCounters ==
    {[f \in fs \cup {"type"} |->
         CASE f = "type" -> "FULL"
           [] f = "numberOfArchives" -> a
           [] OTHER -> b] :
        fs \in SUBSET {"numberOfArchives", "numberOfFailedArchives"},
        a \in 0..MaxThreshold, b \in 0..MaxThreshold}

\* the backups document: a listing, or entities under a count of 0 or none
ArchiveDocs ==
    {Listing(es) : es \in SeqsUpTo(ArchiveCounters, MaxLen)}
    \cup {[entities |-> <<e>>, metadata |-> [grandTotalEntityCount |-> 0]] :
             e \in ArchiveCounters}
    \cup {[entities |-> <<e>>] : e \in ArchiveCounters}

ArchiveInputs ==
    {[fn |-> "check_archive_status", data |-> d, name |-> N_ab, verbose |-> v] :
        d \in ArchiveDocs, v \in BOOLEAN}

\* the statuses a backup is listed with: those of the status table, and others
BACKUP_STATUSES == {"OK", "WARNING", "FATAL", "ERROR", "ok", "ABORTED"}

BackupEntries ==
    {[status |-> st, type |-> "FULL"] : st \in BACKUP_STATUSES}
    \cup {[status |-> st, type |-> "INCR", vmName |-> N_Ab] : st \in BACKUP_STATUSES}

\* the backups document: a listing, or entities under a count of 0 or none
VmBackupDocs ==
    {Listing(es) : es \in SeqsUpTo(BackupEntries, MaxLen)}
    \cup {[entities |-> <<e>>, metadata |-> [grandTotalEntityCount |-> 0]] : e \in BackupEntries}
    \cup {[entities |-> <<e>>] : e \in BackupEntries}

VmBackupInputs ==
    {[fn |-> "check_vm_backup", data |-> d, name |-> N_ab, verbose |-> v] :
        d \in VmBackupDocs, v \in BOOLEAN}

\* the health a target is reported with: those of the health table, and others
HEALTHS == {"GREEN", "GREY", "GRAY", "RED", "green", "UNKNOWN", "BLUE"}

\* the target record: health is <<h>>, or <<>> for a record without the field
TargetRecord(health, named) ==
    [f \in (IF Len(health) > 0 THEN {"health"} ELSE {})
            \cup (IF named THEN {"name"} ELSE {}) \cup {"uuid"} |->
        CASE f = "health" -> health[1]
          [] f = "name" -> N_Ab
          [] OTHER -> "u1"]

\* the two shapes /targets/{uuid} answers with
TargetDoc(shape, health, named) ==
    IF shape = "listed" THEN Listing(<<TargetRecord(health, named)>>)
    ELSE TargetRecord(health, named)

TargetInputs ==
    {[fn |-> "check_target_health", shape |-> sh, health |-> h,
      data |-> TargetDoc(sh, h, named), name |-> N_ab, verbose |-> v] :
        sh \in {"direct", "listed"}, h \in {<<x>> : x \in HEALTHS} \cup {<<>>},
        named \in BOOLEAN, v \in BOOLEAN}

\* the compliance a policy is reported with: those of the status table, and
\* others
POLICY_STATUSES == {"GREEN", "WARNING", "RED", "YELLOW", "green"}

\* the policy's detail document: compliancyStatus present or not
PolicyInputs ==
    {[fn |-> "check_policy_compliance", data |-> d, name |-> N_ab, verbose |-> v] :
        d \in {Listing(<<[name |-> N_Ab, compliancyStatus |-> st, compliantVmsCount |-> n]>>) :
                  st \in POLICY_STATUSES, n \in 0..MaxThreshold}
               \cup {Listing(<<[name |-> N_Ab]>>), Listing(<<>>), NoEntitiesDoc},
        v \in BOOLEAN}

\* the options before optparse has run
NoOptions ==
    [apitoken |-> "", host |-> "", vmtarget |-> Absent, scantype |-> "",
     warning_threshold |-> DEFAULT_WARNING, critical_threshold |-> DEFAULT_CRITICAL,
     period_hours |-> DEFAULT_PERIOD, timeout |-> DEFAULT_TIMEOUT, verbose |-> FALSE]

\* no process is running while a handler is called on its own
NoProcess ==
    /\ argv = NoOptions
    /\ options = NoOptions
    /\ pc = "call"
    /\ exit_code = NoExit
    /\ stdout = <<>>
    /\ stderr = <<>>
    /\ requests = <<>>
    /\ probes = <<>>
    /\ uuid = None

InitChecks ==
    /\ NoProcess
    /\ fout = Pending
    /\ \/ fin \in JobsInputs
       \/ fin \in ValidationInputs
       \/ fin \in SharesInputs
       \/ fin \in BucketsInputs
       \/ fin \in StorageInputs
       \/ fin \in PolicyAdvancedInputs
       \/ fin \in UnassignedInputs
       \/ fin \in LicenseInputs
       \/ fin \in ThresholdInputs
       \/ fin \in ResolverInputs
       \/ fin \in ApiRequestInputs
       \/ fin \in PolicyInputs
       \/ fin \in ArchiveInputs
       \/ fin \in VmBackupInputs
       \/ fin \in TargetInputs

\* the call returns r
Returns(r) ==
    /\ pc = "call"
    /\ fout.kind = "pending"
    /\ fout' = r
    /\ UNCHANGED <<argv, options, pc, exit_code, stdout, stderr, requests, probes, uuid, fin>>

CallCheckJobs ==
    /\ fin.fn = "check_jobs"
    /\ Returns(check_jobs(fin.data, DEFAULT_PERIOD, fin.w, fin.c, fin.verbose))

CallCheckBackupValidation ==
    /\ fin.fn = "check_backup_validation"
    /\ Returns(check_backup_validation(fin.data, DEFAULT_PERIOD, fin.w, fin.c, fin.verbose))

CallCheckShares ==
    /\ fin.fn = "check_shares"
    /\ Returns(check_shares(fin.data, fin.w, fin.c, fin.verbose))

CallCheckBuckets ==
    /\ fin.fn = "check_buckets"
    /\ Returns(check_buckets(fin.data, fin.w, fin.c, fin.verbose))

CallSharesAndBuckets ==
    /\ fin.fn = "storage"
    /\ Returns([kind |-> "both",
             shares |-> check_shares(fin.data, fin.w, fin.c, fin.verbose),
             buckets |-> check_buckets(fin.data, fin.w, fin.c, fin.verbose)])

CallPolicyAdvancedDetail ==
    /\ fin.fn = "check_policy_advanced"
    /\ Returns(policy_advanced_detail(fin.data, fin.w, fin.c, fin.verbose))

CallCheckUnassigned ==
    /\ fin.fn = "check_unassigned"
    /\ Returns(check_unassigned(fin.vms, fin.shares, fin.apps, fin.vgs, fin.w, fin.c,
                             fin.verbose))

CallCheckLicense ==
    /\ fin.fn = "check_license"
    /\ Returns(check_license(fin.data, fin.w, fin.c, fin.verbose))

CallValidateThresholds ==
    /\ fin.fn = "validate_thresholds"
    /\ Returns([kind |-> "validated",
             result |-> validate_thresholds(fin.w, fin.c, fin.inverted)])

CallGetEntityUuid ==
    /\ fin.fn = "get_entity_uuid"
    /\ Returns([kind |-> "resolved",
             result |-> get_entity_uuid(fin.data, fin.name, fin.name_field, "entities",
                                        fin.verbose)])

CallApiRequest ==
    /\ fin.fn = "api_request"
    /\ Returns([kind |-> "requested", result |-> api_request(fin.resp),
                debug |-> api_request_debug(fin.resp, "url", fin.verbose)])

CallCheckPolicyCompliance ==
    /\ fin.fn = "check_policy_compliance"
    /\ Returns(check_policy_compliance(fin.data, fin.name, fin.verbose))

CallCheckArchiveStatus ==
    /\ fin.fn = "check_archive_status"
    /\ Returns(check_archive_status(fin.data, fin.name, fin.verbose))

CallCheckVmBackup ==
    /\ fin.fn = "check_vm_backup"
    /\ Returns(check_vm_backup(fin.data, fin.name, fin.verbose))

CallCheckTargetHealth ==
    /\ fin.fn = "check_target_health"
    /\ Returns(check_target_health(fin.data, fin.name, fin.verbose))

NextChecks ==
    \/ CallCheckJobs
    \/ CallCheckBackupValidation
    \/ CallCheckShares
    \/ CallCheckBuckets
    \/ CallSharesAndBuckets
    \/ CallPolicyAdvancedDetail
    \/ CallCheckUnassigned
    \/ CallCheckLicense
    \/ CallValidateThresholds
    \/ CallGetEntityUuid
    \/ CallApiRequest
    \/ CallCheckPolicyCompliance
    \/ CallCheckArchiveStatus
    \/ CallCheckVmBackup
    \/ CallCheckTargetHealth

SpecChecks == InitChecks /\ [][NextChecks]_vars

-----------------------------------------------------------------------------
(* Properties of the handlers called on their own (SpecChecks) *)

\* the entries of the listing a call was given
Entities == IF "entities" \in DOMAIN fin.data THEN fin.data.entities ELSE <<>>

FailedStatus(entry) ==
    "status" \in DOMAIN entry /\ Upper(entry.status) \in {"WARNING", "ERROR"}

FailedValidation(entry) ==
    /\ FailedStatus(entry)
    /\ "type" \in DOMAIN entry
    /\ entry.type \in {"BACKUP_VALIDATION", "RESTORE_VALIDATE"}

Tagged(entry, tags) ==
    "protocolTypeList" \in DOMAIN entry
    /\ \E i \in DOMAIN entry.protocolTypeList : entry.protocolTypeList[i] \in tags

NonCompliant(entry) ==
    /\ "status" \in DOMAIN entry /\ entry.status = "PROTECTED"
    /\ "compliancyStatus" \in DOMAIN entry /\ entry.compliancyStatus \in {"RED", "YELLOW"}

NonCompliantShare(entry) == Tagged(entry, {"NFS", "SMB"}) /\ NonCompliant(entry)

NonCompliantBucket(entry) == Tagged(entry, {"S3"}) /\ NonCompliant(entry)

NoGroup(entry) ==
    "protectionGroupName" \notin DOMAIN entry \/ entry.protectionGroupName = ""

UnassignedShare(entry) == Tagged(entry, {"NFS", "SMB"}) /\ NoGroup(entry)

UnassignedBucket(entry) == Tagged(entry, {"S3"}) /\ NoGroup(entry)

\* the entries of the listing an answer carries, none when the fetch failed
Fetched(answer) ==
    IF answer.kind = "http" /\ answer.status = 200 /\ "entities" \in DOMAIN answer.body
    THEN answer.body.entities
    ELSE <<>>

RECURSIVE SumOf(_, _)
SumOf(record, fields) ==
    IF fields = {} THEN 0
    ELSE LET f == CHOOSE g \in fields : TRUE
         IN  (IF f \in DOMAIN record THEN record[f] ELSE 0) + SumOf(record, fields \ {f})

\* how many entries of a listing are of a kind
OfKind(kind, entry) ==
    CASE kind = "failed job" -> FailedStatus(entry)
      [] kind = "failed validation" -> FailedValidation(entry)
      [] kind = "non-compliant share" -> NonCompliantShare(entry)
      [] kind = "non-compliant bucket" -> NonCompliantBucket(entry)
      [] kind = "unassigned" -> NoGroup(entry)
      [] kind = "unassigned share" -> UnassignedShare(entry)
      [] kind = "unassigned bucket" -> UnassignedBucket(entry)

HowMany(entities, kind) == Cardinality({i \in DOMAIN entities : OfKind(kind, entities[i])})

COUNT_CHECKS ==
    {"check_jobs", "check_policy_advanced", "check_backup_validation", "check_shares",
     "check_buckets", "check_unassigned"}

\* the listing check_unassigned's buckets loop reads: `data` as the shares
\* fetch left it, which is the VM listing when that fetch failed
BucketsLoopReads ==
    IF api_request(fin.shares).ok THEN Fetched(fin.shares) ELSE Fetched(fin.vms)

\* the bad-count n of the call, counted on its arguments
BadCount ==
    CASE fin.fn = "check_jobs" -> HowMany(Entities, "failed job")
      [] fin.fn = "check_backup_validation" -> HowMany(Entities, "failed validation")
      [] fin.fn = "check_shares" -> HowMany(Entities, "non-compliant share")
      [] fin.fn = "check_buckets" -> HowMany(Entities, "non-compliant bucket")
      [] fin.fn = "check_policy_advanced" ->
            SumOf(fin.data.entities[1], Range(UNCOMPLIANT_FIELDS))
      [] fin.fn = "check_unassigned" ->
            HowMany(Fetched(fin.vms), "unassigned")
            + HowMany(Fetched(fin.shares), "unassigned share")
            + HowMany(BucketsLoopReads, "unassigned bucket")
            + HowMany(Fetched(fin.apps), "unassigned") + HowMany(Fetched(fin.vgs), "unassigned")

\* the severity a returned result carries: its exit code and the label that
\* opens its output line
Severity(result) == <<result.exit_code, result.output[1].vals[1]>>

DaysLeftRead == fin.data.entities[1].daysLeft

\* C2: the license check, given critical_days <= warning_days, returns CRITICAL
\* when days_left <= critical_days, WARNING when critical_days < days_left <=
\* warning_days and OK otherwise (so -w 30 -c 7 with 7 days left is CRITICAL).
LicenseClassifies ==
    (fin.fn = "check_license" /\ fout.kind # "pending" /\ HasEntities(fin.data)
     /\ "daysLeft" \in DOMAIN fin.data.entities[1])
    => /\ fout.kind = "return"
       /\ fin.c <= fin.w
       /\ DaysLeftRead <= fin.c => Severity(fout) = <<EXIT_CRITICAL, "CRITICAL">>
       /\ (fin.c < DaysLeftRead /\ DaysLeftRead <= fin.w)
            => Severity(fout) = <<EXIT_WARNING, "WARNING">>
       /\ DaysLeftRead > fin.w => Severity(fout) = <<EXIT_OK, "OK">>

\* C2 happens: -w 30 -c 7 and 7 days left gave CRITICAL
LicenseClassifiesWitness ==
    /\ fin.fn = "check_license" /\ fout.kind = "return" /\ HasEntities(fin.data)
    /\ "daysLeft" \in DOMAIN fin.data.entities[1]
    /\ fin.w = 30 /\ fin.c = 7 /\ DaysLeftRead = 7
    /\ fout.exit_code = EXIT_CRITICAL

\* C3: validate_thresholds succeeds iff c >= w >= 0 in normal mode and iff
\* w >= c >= 0 in inverted mode; in every other case it exits with code 3.
ValidateThresholdsIff ==
    fout.kind = "validated"
    => /\ fout.result.ok <=> (IF fin.inverted
                              THEN fin.w >= fin.c /\ fin.c >= 0
                              ELSE fin.c >= fin.w /\ fin.w >= 0)
       /\ ~fout.result.ok => fout.result.code = EXIT_UNKNOWN

\* C3 happens: inverted mode refused critical > warning >= 0 with exit code 3
ValidateThresholdsIffWitness ==
    /\ fout.kind = "validated" /\ fin.inverted
    /\ fin.c > fin.w /\ fin.w >= 0
    /\ ~fout.result.ok /\ fout.result.code = EXIT_UNKNOWN

\* the positions of the listing whose name is `name`, and those whose name is
\* `name` ignoring case
NameAt(i) == Entities[i][fin.name_field]

ExactAt == {i \in DOMAIN Entities : NameAt(i) = fin.name}

AnyCaseAt == {i \in DOMAIN Entities : Lower(NameAt(i)) = Lower(fin.name)}

\* the mapping built from the listing iterates over the names in the order of
\* their first occurrence and holds for a name the uuid of its last occurrence
FirstOf(S) == CHOOSE i \in S : \A j \in S : i <= j

MappedUuid(name) ==
    LET at == {i \in DOMAIN Entities : NameAt(i) = name}
    IN  Entities[CHOOSE i \in at : \A j \in at : j <= i].uuid

\* C8: get_entity_uuid returns the identifier of the entity named exactly as
\* requested when there is one; otherwise the identifier of the first entry, in
\* the mapping's iteration order, named so ignoring case; and None only when no
\* entry matches in either way.
ResolverOrder ==
    fout.kind = "resolved"
    => /\ ExactAt # {} => fout.result.uuid \in {Entities[i].uuid : i \in ExactAt}
       /\ (ExactAt = {} /\ AnyCaseAt # {})
            => fout.result.uuid = MappedUuid(NameAt(FirstOf(AnyCaseAt)))
       /\ fout.result.uuid = None <=> AnyCaseAt = {}

\* C8 happens: no exact match, two entries of different names match ignoring
\* case, and the uuid returned is the first one's
ResolverOrderWitness ==
    /\ fout.kind = "resolved"
    /\ ExactAt = {}
    /\ \E i, j \in AnyCaseAt : i < j /\ NameAt(i) # NameAt(j)
    /\ fout.result.uuid = Entities[FirstOf(AnyCaseAt)].uuid

\* the entries of the shares listing with a status of their own (neither
\* UNDEFINED nor missing) and one of the protocol tags the two checks keep
InSomeDomain(entry) ==
    /\ "status" \in DOMAIN entry /\ entry.status \in {"PROTECTED", "UNPROTECTED"}
    /\ Tagged(entry, {"NFS", "SMB", "S3"})

\* shares_total and buckets_total of the two results
SharesTotal == fout.shares.output[1].vals[6]

BucketsTotal == fout.buckets.output[1].vals[6]

\* C10: the shares and buckets checks together place every entry of the shares
\* listing in exactly one of shares domain, buckets domain, excluded-undefined,
\* excluded-other-protocol: the entries the two checks count are as many as the
\* entries of either domain, none counted by both checks.
StorageDomainsDisjoint ==
    fout.kind = "both"
    => SharesTotal + BucketsTotal
       = Cardinality({i \in DOMAIN Entities : InSomeDomain(Entities[i])})

-----------------------------------------------------------------------------
(* Properties of one execution (Spec) *)

\* the arguments the command-line reference asks for: the host and the check
\* type always, the token unless the type is port, -n for the object, policy,
\* manager and port checks
NAMED_TYPES ==
    {"vm", "vmid", "target", "archive", "policy", "policy-advanced", "manager", "port"}

Registered == argv.scantype \in ALL_CHECK_TYPES

RequiredMissing ==
    \/ argv.host = ""
    \/ argv.scantype = ""
    \/ argv.scantype # "port" /\ argv.apitoken = ""
    \/ argv.scantype \in NAMED_TYPES /\ argv.vmtarget = Absent

BadThresholds ==
    /\ argv.scantype \in THRESHOLD_TYPES
    /\ ~(IF argv.scantype = "license"
         THEN argv.warning_threshold >= argv.critical_threshold
              /\ argv.critical_threshold >= 0
         ELSE argv.critical_threshold >= argv.warning_threshold
              /\ argv.warning_threshold >= 0)

NoNetwork == requests = <<>> /\ probes = <<>>

\* C4: an unregistered check type, a missing required argument or (for a check
\* that uses thresholds) a threshold pair out of order ends the run with exit
\* code 3, and no HTTP request or TCP probe is issued at any point of the run.
RejectedBeforeNetwork ==
    (~Registered \/ RequiredMissing \/ BadThresholds)
    => /\ NoNetwork
       /\ pc \in {"parse", "done"}
       /\ pc = "done" => exit_code = EXIT_UNKNOWN

\* C4 happens: a jobs check with every argument given and critical < warning
\* has exited
RejectedBeforeNetworkWitness ==
    /\ pc = "done" /\ argv.scantype = "jobs"
    /\ Registered /\ ~RequiredMissing /\ BadThresholds
    /\ argv.critical_threshold >= 0 /\ argv.warning_threshold >= 0
    /\ exit_code = EXIT_UNKNOWN /\ NoNetwork

PeriodOutOfRange ==
    /\ argv.scantype \in PERIOD_TYPES
    /\ (argv.period_hours < 1 \/ argv.period_hours > 168)

BadPort ==
    /\ argv.scantype = "port"
    /\ argv.vmtarget \notin {Absent, T_port}
    /\ ~(IsInt(argv.vmtarget) /\ IntVal(argv.vmtarget) \in 1..65535)

\* C5: every argument error, a period outside 1..168 for jobs and
\* backup-validation and a port that is not an integer of 1..65535 among them,
\* ends the run with exit code 3 before any network request.
ArgumentErrorsExitUnknown ==
    (pc = "done"
     /\ (~Registered \/ RequiredMissing \/ BadThresholds \/ PeriodOutOfRange \/ BadPort))
    => exit_code = EXIT_UNKNOWN /\ NoNetwork

\* C6: a port check given a host and a port number and no token passes the
\* argument validation and makes its TCP probe.
PortNeedsNoToken ==
    (pc = "done" /\ argv.scantype = "port" /\ argv.host # "" /\ argv.apitoken = ""
     /\ argv.vmtarget = P_8443)
    => Len(probes) = 1 /\ stderr = <<>> /\ exit_code \in {EXIT_OK, EXIT_CRITICAL}

\* the last line printed on standard output
LastLine == stdout[Len(stdout)]

\* C7: for every check type but unassigned and port, once an HTTP request has
\* failed no further request is made (the failed one is not issued again), the
\* output line starts with 'CRITICAL: API Error' and the exit code is 2.
FailedRequestEndsCheck ==
    \A i \in DOMAIN requests :
        (argv.scantype \notin {"unassigned", "port"} /\ ~requests[i].ok)
        => /\ i = Len(requests)
           /\ pc = "done"
           /\ exit_code = EXIT_CRITICAL
           /\ LastLine.fmt = "CRITICAL: API Error - {}"

\* the checks that resolve the name of -n in a listing
RESOLVED_TYPES == {"vm", "archive", "target", "policy", "policy-advanced"}

\* the names of the listing a request fetched
NamesListed(request) ==
    LET entities == IF request.ok /\ "entities" \in DOMAIN request.data
                    THEN request.data.entities ELSE <<>>
    IN  [i \in DOMAIN entities |-> entities[i][NameFieldOf(argv.scantype)]]

\* the listing was fetched and holds no entity named as -n asks, even ignoring
\* case
NameNotListed ==
    /\ argv.scantype \in RESOLVED_TYPES
    /\ Len(requests) >= 1
    /\ requests[1].ok
    /\ \A i \in DOMAIN NamesListed(requests[1]) :
          Lower(NamesListed(requests[1])[i]) # Lower(argv.vmtarget)

\* the names the output gives as available, and the count it gives of the rest
NamesShown ==
    LET lines == SelectSeq(stdout, LAMBDA l : l.fmt = "Available {}: {}")
    IN  IF Len(lines) = 0 THEN <<>> ELSE lines[1].vals[2]

MoreShown ==
    LET lines == SelectSeq(stdout, LAMBDA l : l.fmt = "... and {} more")
    IN  IF Len(lines) = 0 THEN 0 ELSE lines[1].vals[1]

NoDetailRequested ==
    /\ \A i \in DOMAIN requests : requests[i].endpoint \in {"vms", "targets", "policies"}
    /\ pc \notin {"check", "policy_detail"}

\* C9: for vm, archive, target, policy and policy-advanced, a name that matches
\* no entity of the listing ends the run with exit code 2 and no request for a
\* detail or backup record; for target and policy-advanced the listing is
\* fetched a second time, and the output names the first five entities of that
\* second listing and counts the others, or names none when that fetch fails or
\* lists nothing.
NameNotFound ==
    NameNotListed
    => /\ NoDetailRequested
       /\ pc = "done" => exit_code = EXIT_CRITICAL
       /\ (pc = "done" /\ argv.scantype \notin {"target", "policy-advanced"})
            => Len(requests) = 1 /\ NamesShown = <<>>
       /\ (pc = "done" /\ argv.scantype \in {"target", "policy-advanced"})
            => /\ Len(requests) = 2
               /\ NamesShown = SubSeq(NamesListed(requests[2]), 1,
                                      Min(5, Len(NamesListed(requests[2]))))
               /\ MoreShown = Len(NamesListed(requests[2])) - Len(NamesShown)

\* C9 happens: a target was not found and the second listing held more names
\* than the output shows
NameNotFoundWitness ==
    /\ NameNotListed /\ pc = "done" /\ argv.scantype = "target"
    /\ exit_code = EXIT_CRITICAL
    /\ Len(NamesShown) = 5 /\ MoreShown = 1

\* C9 as stated: for target and policy-advanced every name of the listing the
\* name was looked up in is in the output.
AllNamesShown ==
    (NameNotListed /\ pc = "done" /\ argv.scantype \in {"target", "policy-advanced"})
    => /\ exit_code = EXIT_CRITICAL
       /\ NoDetailRequested
       /\ \A i \in DOMAIN NamesListed(requests[1]) :
             \E j \in DOMAIN NamesShown : NamesShown[j] = NamesListed(requests[1])[i]

-----------------------------------------------------------------------------
(* Properties of the object handlers called on their own (SpecChecks) *)

\* a handler was called and has returned a result
Returned(fn) == fin.fn = fn /\ fout.kind = "return"

\* a counter of the latest backup, 0 when the record does not carry it
CounterOf(entry, field) == IF field \in DOMAIN entry THEN entry[field] ELSE 0

ArchivesOk == CounterOf(Entities[1], "numberOfArchives")

ArchivesFailed == CounterOf(Entities[1], "numberOfFailedArchives")

\* the number of backups the document announces
BackupCount ==
    IF "metadata" \in DOMAIN fin.data THEN fin.data.metadata.grandTotalEntityCount ELSE 0

\* C11: the archive check classifies by the two archive counters of the latest
\* backup: failed >= 1 gives CRITICAL whatever the ok count, failed = 0 and
\* ok >= 1 gives OK, failed = 0 and ok = 0 gives WARNING.
ArchiveClassifies ==
    (fin.fn = "check_archive_status" /\ fout.kind # "pending" /\ BackupCount > 0
     /\ Len(Entities) > 0)
    => /\ fout.kind = "return"
       /\ fout.exit_code = IF ArchivesFailed >= 1 THEN EXIT_CRITICAL
                           ELSE IF ArchivesOk >= 1 THEN EXIT_OK
                           ELSE EXIT_WARNING

\* C11 happens: archives failed and archives succeeded on the latest backup, an
\* older backup without any failure, and the result is CRITICAL
ArchiveClassifiesWitness ==
    /\ Returned("check_archive_status")
    /\ Len(Entities) = 2
    /\ ArchivesFailed >= 1 /\ ArchivesOk >= 1
    /\ CounterOf(Entities[2], "numberOfFailedArchives") = 0
    /\ fout.exit_code = EXIT_CRITICAL

\* the severity the spec gives a backup status
SeverityOfBackup(st) ==
    CASE st = "OK" -> EXIT_OK
      [] st = "WARNING" -> EXIT_WARNING
      [] st = "FATAL" -> EXIT_CRITICAL
      [] OTHER -> EXIT_UNKNOWN

\* C12: for the vm and vmid checks, zero backups found gives CRITICAL with a
\* message containing 'no backups' and the metric backup_status=0, whatever the
\* status table would give; when backups exist the latest backup's status is
\* mapped OK->OK, WARNING->WARNING, FATAL->CRITICAL, any other string->UNKNOWN.
VmBackupClassifies ==
    (fin.fn = "check_vm_backup" /\ fout.kind # "pending")
    => /\ fout.kind = "return"
       /\ BackupCount = 0
            => /\ fout.exit_code = EXIT_CRITICAL
               /\ fout.output = <<Line("{} has no backups |backup_status=0;;;", <<fin.name>>)>>
       /\ BackupCount # 0
            => fout.exit_code = SeverityOfBackup(Entities[1].status)

\* C12 happens: no backup is announced although a backup of status OK is
\* listed, and the result is CRITICAL
VmBackupClassifiesWitness ==
    /\ Returned("check_vm_backup")
    /\ BackupCount = 0
    /\ Len(Entities) > 0 /\ Entities[1].status = "OK"
    /\ fout.exit_code = EXIT_CRITICAL

\* the severity the spec gives a target health, <<>> being the absent field
SeverityOfHealth(health) ==
    IF Len(health) = 0 THEN EXIT_UNKNOWN
    ELSE CASE health[1] = "GREEN" -> EXIT_OK
           [] health[1] \in {"GREY", "GRAY"} -> EXIT_WARNING
           [] health[1] = "RED" -> EXIT_CRITICAL
           [] OTHER -> EXIT_UNKNOWN

\* C13: the target check gives the same severity whether the target comes as a
\* direct object or as a one-element 'entities' listing: GREEN -> OK, GREY or
\* GRAY -> WARNING, RED -> CRITICAL, any other string or no health -> UNKNOWN.
TargetSeverity ==
    (fin.fn = "check_target_health" /\ fout.kind # "pending")
    => /\ fout.kind = "return"
       /\ fout.exit_code = SeverityOfHealth(fin.health)

\* C13 happens: the target comes in a one-element listing with health GRAY and
\* the result is WARNING
TargetSeverityWitness ==
    /\ Returned("check_target_health")
    /\ fin.shape = "listed"
    /\ fin.health = <<"GRAY">>
    /\ fout.exit_code = EXIT_WARNING

\* the entries of a fetched listing that have no policy group
UnassignedIn(answer) == HowMany(Fetched(answer), "unassigned")

\* the entries of the shares listing that have no policy group, among those
\* tagged as a share (NFS, SMB) or as a bucket (S3)
UnassignedStored ==
    Cardinality({i \in DOMAIN Fetched(fin.shares) :
                    /\ NoGroup(Fetched(fin.shares)[i])
                    /\ Tagged(Fetched(fin.shares)[i], {"NFS", "SMB", "S3"})})

\* the counts the result of check_unassigned prints: total, VMs, shares, buckets,
\* applications, volume groups
Contribution(k) == fout.output[1].vals[k + 1]

\* C14: in the unassigned check, whichever of the listing fetches fail, the
\* handler returns a result in which a failed listing contributes 0 and a
\* fetched listing contributes exactly its number of entries without a policy
\* group (shares and buckets both come from the shares listing), the total
\* being their sum.
UnassignedContributions ==
    (fin.fn = "check_unassigned" /\ fout.kind # "pending")
    => /\ fout.kind = "return"
       /\ Contribution(2) = UnassignedIn(fin.vms)
       /\ Contribution(3) + Contribution(4) = UnassignedStored
       /\ Contribution(5) = UnassignedIn(fin.apps)
       /\ Contribution(6) = UnassignedIn(fin.vgs)
       /\ Contribution(1) = UnassignedIn(fin.vms) + UnassignedStored
                            + UnassignedIn(fin.apps) + UnassignedIn(fin.vgs)

-----------------------------------------------------------------------------
(* Properties of one execution, continued (Spec) *)

\* the run of one check type has ended after its requests were answered
Ran(types) == options.scantype \in types /\ pc = "done" /\ Len(requests) > 0

Probed == options.scantype = "port" /\ pc = "done" /\ Len(probes) > 0

\* the failures of the attempt that are raised: name resolution, timeout, others
RAISED_OUTCOMES == {"gaierror", "timeout", "exception"}

\* the result line a probe of the run's host prints for an outcome
PortLine(outcome) ==
    check_port(outcome, 1, options.host, DEFAULT_PORT,
               Min(options.timeout, PORT_TIMEOUT_CAP), FALSE).output

\* C16: the port check issues no HTTP request and returns OK if and only if the
\* TCP connection succeeds, CRITICAL in every other case; a refused connection
\* gives a message containing 'CLOSED' with the response time reported as 0, and
\* DNS failure, timeout and other transport errors give three different texts.
PortProbe ==
    /\ options.scantype = "port" => requests = <<>>
    /\ Probed
       => /\ Len(probes) = 1
          /\ exit_code = IF probes[1].outcome = "open" THEN EXIT_OK ELSE EXIT_CRITICAL
          /\ probes[1].outcome = "errno"
               => LastLine.fmt = "CRITICAL: Port {} is CLOSED on {} |response_time=0ms;;;0;"
          /\ probes[1].outcome \in RAISED_OUTCOMES
               => /\ LastLine = PortLine(probes[1].outcome)[1]
                  /\ \A other \in RAISED_OUTCOMES \ {probes[1].outcome} :
                        LastLine.fmt # PortLine(other)[1].fmt

\* C16 happens: the connection to the port given with -n is refused and the run
\* ends with CRITICAL and the CLOSED message
PortProbeWitness ==
    /\ Probed
    /\ probes[1].outcome = "errno"
    /\ probes[1].port = 8443 /\ argv.vmtarget = P_8443
    /\ exit_code = EXIT_CRITICAL
    /\ LastLine.fmt = "CRITICAL: Port {} is CLOSED on {} |response_time=0ms;;;0;"

\* the counter of the dashboard record the sub-mode of -n reads
DashboardCounter ==
    CounterOf(requests[1].data.entities[1],
              IF options.vmtarget = T_protected THEN "unprotectedCount"
              ELSE "compliancyRedCount")

\* C17: the manager check with sub-mode 'protected' returns CRITICAL if and only
\* if the dashboard's unprotected-VM count is non-zero (OK otherwise), with
\* sub-mode 'compliance' CRITICAL if and only if the red-compliance VM count is
\* non-zero (OK otherwise), and with any other sub-mode it exits UNKNOWN (3)
\* without issuing any network request.
ManagerOutcome ==
    (options.scantype = "manager" /\ pc = "done")
    => /\ options.vmtarget \notin {T_protected, T_compliance}
            => exit_code = EXIT_UNKNOWN /\ NoNetwork
       /\ (Len(requests) > 0 /\ requests[1].ok /\ HasEntities(requests[1].data))
            => /\ options.vmtarget \in {T_protected, T_compliance}
               /\ exit_code = IF DashboardCounter # 0 THEN EXIT_CRITICAL ELSE EXIT_OK

\* C17 happens: sub-mode protected, a dashboard with an unprotected VM and no
\* VM in red compliance, and the run ends with CRITICAL
ManagerOutcomeWitness ==
    /\ Ran({"manager"})
    /\ options.vmtarget = T_protected
    /\ requests[1].ok /\ HasEntities(requests[1].data)
    /\ DashboardCounter = 1
    /\ CounterOf(requests[1].data.entities[1], "compliancyRedCount") = 0
    /\ exit_code = EXIT_CRITICAL

\* C17 also happens: a sub-mode that is neither protected nor compliance passes
\* the argument parser and the run ends with UNKNOWN
ManagerUsageWitness ==
    /\ options.scantype = "manager" /\ pc = "done"
    /\ options.vmtarget = N_ab
    /\ options.apitoken # "" /\ options.host # ""
    /\ exit_code = EXIT_UNKNOWN

\* the severities and their exit codes
LevelCode(level) ==
    CASE level = "OK" -> EXIT_OK
      [] level = "WARNING" -> EXIT_WARNING
      [] level = "CRITICAL" -> EXIT_CRITICAL
      [] level = "UNKNOWN" -> EXIT_UNKNOWN
      [] OTHER -> NoExit

\* the result lines that open with the status label the handler computed
LABELLED_TEXTS ==
    {"{}: Backup validations over {}h - {} failed ({} errors, {} warnings), {} successful |validations_total={};;;0; validations_ok={};;;0; validations_failed={};{};{};0;",
     "{}: Buckets (S3) - {}/{} compliant, {} non-compliant, {} unprotected |buckets_total={};;;0; buckets_compliant={};;;0; buckets_non_compliant={};{};{};0; buckets_unprotected={};;;0;",
     "{}: HYCU jobs over {}h - {} failed ({} errors, {} warnings), {} successful, {} running |jobs_ok={};;;0; jobs_warning={};;;0; jobs_error={};;;0; jobs_failed={};{};{};0; jobs_running={};;;0; success_rate={}%;;;0;100",
     "{}: License '{}' - {} days left (expires {}), Status: {}, VMs: {}/{}, Sockets: {}/{} |days_left={};{};{};0; vms_protected={};;;0;{} vms_licensed={};;;0; sockets_actual={};;;0;{} sockets_licensed={};;;0;",
     "{}: Policy '{}' - {}/{} objects compliant ({}/{} VMs, {}/{} shares, {}/{} apps, {}/{} buckets, {}/{} VGs) |total_objects={};;;0; compliant={};;;0; uncompliant={};{};{};0; vms_compliant={};;;0;{} vms_uncompliant={};;;0;{} shares_compliant={};;;0;{} shares_uncompliant={};;;0;{} apps_compliant={};;;0;{} apps_uncompliant={};;;0;{} compliance_rate={}%;;;0;100",
     "{}: Shares (NFS/SMB) - {}/{} compliant, {} non-compliant, {} unprotected |shares_total={};;;0; shares_compliant={};;;0; shares_non_compliant={};{};{};0; shares_unprotected={};;;0;",
     "{}: {} unassigned objects - {} VMs, {} shares, {} buckets, {} apps, {} VGs | {} |unassigned_total={};{};{};0; unassigned_vms={};;;0; unassigned_shares={};;;0; unassigned_buckets={};;;0; unassigned_apps={};;;0; unassigned_vgs={};;;0;",
     "{}: {} unassigned objects - {} VMs, {} shares, {} buckets, {} apps, {} VGs |unassigned_total={};{};{};0; unassigned_vms={};;;0; unassigned_shares={};;;0; unassigned_buckets={};;;0; unassigned_apps={};;;0; unassigned_vgs={};;;0;"}

\* the result lines that open with a level written in the text itself
LEVEL_TEXTS ==
    [OK |-> {"OK: HYCU Controller '{}' - Version {} (Build {}), Hypervisor: {}",
             "OK: Port {} is OPEN on {} (response time: {}ms) |response_time={}ms;;;0;"},
     WARNING |-> {"WARNING: Controller information not available"},
     CRITICAL |-> {"CRITICAL: API Error - {}",
                   "CRITICAL: Cannot resolve hostname {} - DNS error",
                   "CRITICAL: No license information found",
                   "CRITICAL: Port check failed - {}",
                   "CRITICAL: Port {} is CLOSED on {} |response_time=0ms;;;0;",
                   "CRITICAL: Port {} on {} - Connection timeout after {}s",
                   "CRITICAL: {} '{}' does not exist (no {} found)",
                   "CRITICAL: {} '{}' does not exist"},
     UNKNOWN |-> {"UNKNOWN: Unexpected error - {}"}]

\* the LEVEL of a line of the form '<LEVEL>: <free text>', "" for any other line
Level(line) ==
    IF line.fmt \in LABELLED_TEXTS THEN line.vals[1]
    ELSE IF \E l \in DOMAIN LEVEL_TEXTS : line.fmt \in LEVEL_TEXTS[l]
    THEN CHOOSE l \in DOMAIN LEVEL_TEXTS : line.fmt \in LEVEL_TEXTS[l]
    ELSE ""

\* the run has passed parse_arguments and ended
PassedAndEnded == parse_arguments(argv).ok /\ pc = "done"

\* C18: in every run that passes argument validation, whatever the check type
\* and the outcome, the result line reads '<LEVEL>: <free text>' with LEVEL one
\* of OK, WARNING, CRITICAL, UNKNOWN, and the exit code is that level's code.
ResultLineLevel ==
    (PassedAndEnded /\ ~options.verbose)
    => /\ Len(stdout) > 0
       /\ Level(stdout[1]) \in {"OK", "WARNING", "CRITICAL", "UNKNOWN"}
       /\ LevelCode(Level(stdout[1])) = exit_code

\* the texts printed under `if verbose:`, all of which open with 'DEBUG:'
DIAGNOSTIC_TEXTS ==
    {"DEBUG: API response keys: {}", "DEBUG: Available names: {}...", "DEBUG: Breakdown:",
     "DEBUG: Build: {}", "DEBUG: Calling API: {}",
     "DEBUG: Case-insensitive match found: '{}'",
     "DEBUG: Checking backup validations from {} to {}",
     "DEBUG: Checking unassigned {}...", "DEBUG: Connection result code: {}",
     "DEBUG: Connection timeout after {} seconds", "DEBUG: Controller: {}",
     "DEBUG: DNS resolution failed: {}", "DEBUG: Days left: {}",
     "DEBUG: Error checking {}: {}", "DEBUG: Exact match found for '{}'",
     "DEBUG: Found {} {}", "DEBUG: Hypervisor: {}", "DEBUG: Jobs processed: {}",
     "DEBUG: License status: {}",
     "DEBUG: No exact match for '{}', trying case-insensitive search...",
     "DEBUG: No match found for '{}'", "DEBUG: Non-compliant: {}",
     "DEBUG: OK: {}, Failed: {}", "DEBUG: Policy compliance status: {}",
     "DEBUG: Policy found: {}", "DEBUG: Protected: {}, Compliant: {}",
     "DEBUG: Response has 'entities' array, using entities[0]",
     "DEBUG: Response is direct object", "DEBUG: Response time: {}ms",
     "DEBUG: Searching for policy '{}'", "DEBUG: Sockets: {}/{}", "DEBUG: Statistics:",
     "DEBUG: Status breakdown:", "DEBUG: Status code: {}", "DEBUG: Target health: {}",
     "DEBUG: Target name: {}", "DEBUG: Testing TCP connection to {}:{}",
     "DEBUG: Time range:", "DEBUG: Timeout: {} seconds", "DEBUG: Total NFS/SMB shares: {}",
     "DEBUG: Total S3 buckets: {}", "DEBUG: Total jobs in period: {}",
     "DEBUG: Total validations: {}", "DEBUG: UUID: {}",
     "DEBUG: Unassigned objects summary:", "DEBUG: Unexpected error: {}",
     "DEBUG: VMs: {}/{}", "DEBUG: Version: {}"}

\* C19: in every run that passes argument validation, standard output carries
\* the rendered result and nothing else: the diagnostic text of verbose mode is
\* never on the channel that carries the result line.
StdoutOnlyResult ==
    PassedAndEnded
    => /\ Len(stdout) > 0
       /\ \A i \in DOMAIN stdout : stdout[i].fmt \notin DIAGNOSTIC_TEXTS

-----------------------------------------------------------------------------
(* A run of a check that takes no -n, as a function of the command line and  *)
(* of the answers of the network                                             *)

\* the endpoint of the checks of main that issue one request and take no -n
GlobalEndpoint(t) ==
    CASE t = "jobs" -> "jobs"
      [] t = "backup-validation" -> "jobs"
      [] t = "license" -> "administration/license"
      [] t = "version" -> "administration/controller"
      [] OTHER -> "shares"

\* lines 1657-1712: the handler main calls for the check type, on the document
\* its request received
GlobalResult(o, data) ==
    CASE o.scantype = "jobs" ->
           check_jobs(data, o.period_hours, o.warning_threshold, o.critical_threshold, o.verbose)
      [] o.scantype = "backup-validation" ->
           check_backup_validation(data, o.period_hours, o.warning_threshold, o.critical_threshold, o.verbose)
      [] o.scantype = "license" ->
           check_license(data, o.warning_threshold, o.critical_threshold, o.verbose)
      [] o.scantype = "version" -> check_version(data, o.verbose)
      [] o.scantype = "shares" ->
           check_shares(data, o.warning_threshold, o.critical_threshold, o.verbose)
      [] o.scantype = "buckets" ->
           check_buckets(data, o.warning_threshold, o.critical_threshold, o.verbose)

\* a run that has not ended: answers are missing
StillRunning == Ended(<<>>, <<>>, NoExit)

\* main() for the check types of types_without_vmtarget: how the run on the
\* command line a ends when the network gives `answers`, in order
main_global(a, answers) ==
    LET p == parse_arguments(a)
        o == WithDummyTarget(a)
    IN  IF ~p.ok THEN Ended(p.out, p.err, p.code)
        ELSE IF o.scantype = "unassigned"
        THEN IF Len(answers) < 4 THEN StillRunning
             ELSE Outcome(Debug(o.verbose,
                                UnassignedDebug(api_request(answers[1]).ok,
                                                api_request(answers[2]).ok,
                                                api_request(answers[3]).ok,
                                                api_request(answers[4]).ok)),
                          <<>>,
                          check_unassigned(answers[1], answers[2], answers[3], answers[4],
                                           o.warning_threshold, o.critical_threshold,
                                           o.verbose),
                          o.verbose)
        ELSE IF Len(answers) < 1 THEN StillRunning
        ELSE LET r == api_request(answers[1])
                 out == api_request_debug(answers[1], GlobalEndpoint(o.scantype), o.verbose)
             IN  IF r.ok THEN Outcome(out, <<>>, GlobalResult(o, answers[1].body), o.verbose)
                 ELSE ApiOutcome(out, <<>>, r.error)

\* the answers the run has received so far
AnswersSoFar == [i \in DOMAIN requests |-> requests[i].answer]

\* the values of -n a run is compared with: none, a name, a sub-mode, a port
OTHER_TARGETS == {Absent, N_ab, N_zz, T_compliance, P_8443}

\* C20: for the check types jobs, license, version, shares, buckets,
\* backup-validation and unassigned, a run and any run that differs from it only
\* in the value of -n (or in -n being absent), against the same API responses,
\* print the same output and exit with the same code.
TargetIgnored ==
    (argv.scantype \in types_without_vmtarget /\ pc = "done")
    => \A n \in OTHER_TARGETS :
          main_global([argv EXCEPT !.vmtarget = n], AnswersSoFar)
          = Ended(stdout, stderr, exit_code)

\* C20 happens: a jobs run given -n ends with WARNING on a listing that holds
\* a failed job, as the run without -n does
TargetIgnoredWitness ==
    /\ argv.scantype = "jobs" /\ pc = "done"
    /\ argv.vmtarget = N_ab
    /\ exit_code = EXIT_WARNING
    /\ main_global([argv EXCEPT !.vmtarget = Absent], AnswersSoFar).exit_code = EXIT_WARNING

\* ---------------------------------------------------------------------------
\* Metric trailer of the result line   (check_unassigned 1484-1536,
\*                                      check_jobs 820-836)
\* ---------------------------------------------------------------------------

\* The result texts of the handlers that hold exactly one '|': the message,
\* a blank, and the trailer that begins with '|'.
ONE_BAR_TEXTS ==
  {
    "CRITICAL: Port {} is CLOSED on {} |response_time=0ms;;;0;",
    "OK: Port {} is OPEN on {} (response time: {}ms) |response_time={}ms;;;0;",
    "{} VMs not protected out of {} total |vms_unprotected={};;; vms_protected={};;; vms_total={};;;",
    "{} VMs with non-compliant backups |vms_noncompliant={};;; vms_compliant={};;; vms_unknown={};;;",
    "{} archive is {} for last {} |archive_status={};;; archives_ok={};;; archives_failed={};;;",
    "{} has no backups |archive_status=0;;;",
    "{} has no backups |backup_status=0;;;",
    "{} is {} for last {} |backup_status={};;;",
    "{} is {} including {} VMs |policy_status={};;; compliant_vms={};;;",
    "{} is {} |target_health={};;;",
    "{}: Backup validations over {}h - {} failed ({} errors, {} warnings), {} successful |validations_total={};;;0; validations_ok={};;;0; validations_failed={};{};{};0;",
    "{}: Buckets (S3) - {}/{} compliant, {} non-compliant, {} unprotected |buckets_total={};;;0; buckets_compliant={};;;0; buckets_non_compliant={};{};{};0; buckets_unprotected={};;;0;",
    "{}: HYCU jobs over {}h - {} failed ({} errors, {} warnings), {} successful, {} running |jobs_ok={};;;0; jobs_warning={};;;0; jobs_error={};;;0; jobs_failed={};{};{};0; jobs_running={};;;0; success_rate={}%;;;0;100",
    "{}: License '{}' - {} days left (expires {}), Status: {}, VMs: {}/{}, Sockets: {}/{} |days_left={};{};{};0; vms_protected={};;;0;{} vms_licensed={};;;0; sockets_actual={};;;0;{} sockets_licensed={};;;0;",
    "{}: Policy '{}' - {}/{} objects compliant ({}/{} VMs, {}/{} shares, {}/{} apps, {}/{} buckets, {}/{} VGs) |total_objects={};;;0; compliant={};;;0; uncompliant={};{};{};0; vms_compliant={};;;0;{} vms_uncompliant={};;;0;{} shares_compliant={};;;0;{} shares_uncompliant={};;;0;{} apps_compliant={};;;0;{} apps_uncompliant={};;;0;{} compliance_rate={}%;;;0;100",
    "{}: Shares (NFS/SMB) - {}/{} compliant, {} non-compliant, {} unprotected |shares_total={};;;0; shares_compliant={};;;0; shares_non_compliant={};{};{};0; shares_unprotected={};;;0;",
    "{}: {} unassigned objects - {} VMs, {} shares, {} buckets, {} apps, {} VGs |unassigned_total={};{};{};0; unassigned_vms={};;;0; unassigned_shares={};;;0; unassigned_buckets={};;;0; unassigned_apps={};;;0; unassigned_vgs={};;;0;" }

\* The result texts that hold two '|': check_unassigned appends " | " and
\* the names of the unassigned objects to the message (1522-1523) before the
\* blank and the trailer are added (1536).
TWO_BAR_TEXTS ==
  {
    "{}: {} unassigned objects - {} VMs, {} shares, {} buckets, {} apps, {} VGs | {} |unassigned_total={};{};{};0; unassigned_vms={};;;0; unassigned_shares={};;;0; unassigned_buckets={};;;0; unassigned_apps={};;;0; unassigned_vgs={};;;0;" }

\* Number of '|' characters of a printed line; the interpolated values
\* (labels, numbers, names over the alphabet of NAMES) hold none.
Bars(line) == IF line.fmt \in TWO_BAR_TEXTS THEN 2 ELSE IF line.fmt \in ONE_BAR_TEXTS THEN 1 ELSE 0

\* C21: in every result line that carries a metric trailer the first '|' is
\* the separator before the trailer and only metric tuples follow it, that
\* is, the line holds a single '|' -- also the line of the unassigned check
\* when unassigned objects exist.
FirstBarOpensTrailer == Returned("check_unassigned") => \A i \in 1..Len(fout.output) : Bars(fout.output[i]) <= 1

\* ---------------------------------------------------------------------------
\* Failures that are caught   (main 1582-1597, check_policy_advanced 513-528)
\* ---------------------------------------------------------------------------

\* the line main prints for the HycuAPIError of a failed request (1754-1756)
ApiErrorLine(answer) == Line("CRITICAL: API Error - {}", <<api_request(answer).error>>)

\* C22: outside the unassigned handler no failure of a request is caught and
\* discarded: when the run has ended, every request that failed shows in the
\* final output as its API error and the exit code is CRITICAL.
NoFailureDiscarded ==
    (pc = "done" /\ argv.scantype # "unassigned")
    => \A i \in DOMAIN requests :
          ~requests[i].ok
          => /\ exit_code = EXIT_CRITICAL
             /\ \E j \in DOMAIN stdout : stdout[j] = ApiErrorLine(requests[i].answer)

\* ---------------------------------------------------------------------------
\* api_request by status   (api_request 233-254)
\* ---------------------------------------------------------------------------

Requested == fin.fn = "api_request" /\ fout.kind = "requested"

\* the kinds of error the statuses stand for
ErrorKind(status) ==
    IF status \in {401, 403} THEN "auth"
    ELSE IF status = 404 THEN "notfound"
    ELSE IF status >= 500 THEN "server"
    ELSE "http"

\* the kind of the HycuAPIError raised, told from its message
RaisedKind(error) ==
    CASE error.fmt \in {"Authentication failed. Check your API token.",
                        "Access forbidden. Check API token permissions."} -> "auth"
      [] error.fmt = "Resource not found." -> "notfound"
      [] error.fmt = "HYCU server error: {}" -> "server"
      [] error.fmt = "HTTP {}: {}" -> "http"
      [] OTHER -> "other"

Is2xx(status) == 200 <= status /\ status < 300

\* C23: api_request returns the parsed document for every 2xx status with a
\* well-formed body, and raises for every other status an error whose kind
\* (authentication, not found, server, other with status and body) follows
\* from the status.
ApiRequestByStatus ==
    (Requested /\ fin.resp.kind = "http")
    => IF Is2xx(fin.resp.status)
       THEN fin.resp.body # Garbage
            => fout.result = [ok |-> TRUE, data |-> fin.resp.body]
       ELSE /\ ~fout.result.ok
            /\ RaisedKind(fout.result.error) = ErrorKind(fin.resp.status)
            /\ ErrorKind(fin.resp.status) = "http"
               => fout.result.error.vals = <<fin.resp.status, "text">>

\* what does hold: only status 200 is a success
ApiRequestOnly200 ==
    (Requested /\ fin.resp.kind = "http")
    => IF fin.resp.status = 200
       THEN fin.resp.body # Garbage
            => fout.result = [ok |-> TRUE, data |-> fin.resp.body]
       ELSE /\ ~fout.result.ok
            /\ RaisedKind(fout.result.error) = ErrorKind(fin.resp.status)

\* ---------------------------------------------------------------------------
\* Totals of policy-advanced   (check_policy_advanced 539-613)
\* ---------------------------------------------------------------------------

\* the policy record the call was given
PolicyGiven == fin.data.entities[1]

\* the sum of one counter over the five kinds of object, 0 for an absent one
OverKinds(fields) == SumOf(PolicyGiven, Range(fields))

\* C24: the total, compliant and non-compliant counts policy-advanced reports
\* are each the sum of that counter over VMs, shares, applications, buckets
\* and volume groups (an absent counter counts 0), and the count compared
\* with the thresholds is the non-compliant sum.
PolicyTotals ==
    (Returned("check_policy_advanced"))
    => LET v == fout.output[1].vals
       IN  /\ v[4] = OverKinds(TOTAL_FIELDS) /\ v[15] = OverKinds(TOTAL_FIELDS)
           /\ v[3] = OverKinds(COMPLIANT_FIELDS) /\ v[16] = OverKinds(COMPLIANT_FIELDS)
           /\ v[17] = OverKinds(UNCOMPLIANT_FIELDS)
           /\ fout.exit_code = EXIT_CRITICAL <=> OverKinds(UNCOMPLIANT_FIELDS) >= fin.c
           /\ fout.exit_code = EXIT_WARNING
              <=> (OverKinds(UNCOMPLIANT_FIELDS) >= fin.w /\ OverKinds(UNCOMPLIANT_FIELDS) < fin.c)

\* a policy whose non-compliant objects are not VMs crosses the critical
\* threshold, with buckets and volume groups among its objects
PolicyTotalsWitness ==
    /\ Returned("check_policy_advanced")
    /\ Get(PolicyGiven, "uncompliantVmsCount", 0) = 0
    /\ Get(PolicyGiven, "uncompliantBucketsCount", 0) = 1
    /\ Get(PolicyGiven, "uncompliantVgsCount", 0) = 1
    /\ "sharesCount" \notin DOMAIN PolicyGiven
    /\ fin.c = 2 /\ fin.w = 1
    /\ fout.exit_code = EXIT_CRITICAL
    /\ fout.output[1].vals[4] = 4

\* ---------------------------------------------------------------------------
\* Entities of one name   (get_entity_uuid 278-292)
\* ---------------------------------------------------------------------------

LastOf(S) == CHOOSE i \in S : \A j \in S : j <= i

\* C25: when the listing holds several entities named exactly as requested,
\* get_entity_uuid returns the identifier of the last of them.
DuplicateLastWins ==
    (fout.kind = "resolved" /\ Cardinality(ExactAt) >= 2)
    => fout.result.uuid = Entities[LastOf(ExactAt)].uuid

\* C25 happens: two entities of the requested name with another one between
\* them, and the identifier returned is not the first one's
DuplicateLastWinsWitness ==
    /\ fout.kind = "resolved"
    /\ ExactAt = {1, 3}
    /\ fout.result.uuid = Entities[3].uuid
    /\ fout.result.uuid # Entities[1].uuid

\* ---------------------------------------------------------------------------
\* The license check with the default thresholds   (parse_arguments 103-106,
\*                                        153-155, validate_thresholds 196-199)
\* ---------------------------------------------------------------------------

\* a license run whose thresholds are the defaults of -w and -c
LicenseDefaults ==
    /\ argv.scantype = "license"
    /\ argv.warning_threshold = DEFAULT_WARNING /\ argv.critical_threshold = DEFAULT_CRITICAL
    /\ RequiredArguments(argv).ok

\* C26: a license check run without explicit -w and -c (defaults 5 and 10)
\* fails the inverted threshold validation: it ends with UNKNOWN (exit code 3)
\* and no network request is ever made.
LicenseDefaultsRejected ==
    LicenseDefaults
    => /\ NoNetwork
       /\ pc \in {"parse", "done"}
       /\ pc = "done"
          => /\ exit_code = EXIT_UNKNOWN
             /\ stdout = <<Line("ERROR: For license checks, critical threshold must be <= warning threshold", <<>>)>>

LicenseDefaultsRejectedWitness ==
    /\ LicenseDefaults
    /\ pc = "done"
    /\ exit_code = EXIT_UNKNOWN
    /\ requests = <<>>

\* ---------------------------------------------------------------------------
\* The policy policy-advanced selects   (check_policy_advanced 501-511,
\*                                        get_entity_uuid 287-303)
\* ---------------------------------------------------------------------------

\* the policies the first request listed
PoliciesListed == Get(requests[1].data, "entities", <<>>)

\* the positions of the listed policies named as requested, ignoring case
NamedAnyCase == {i \in DOMAIN PoliciesListed : Lower(PoliciesListed[i].name) = Lower(argv.vmtarget)}

\* the identifier the policy check resolves the same name to on the same listing
PolicyCheckSelects ==
    get_entity_uuid(requests[1].data, argv.vmtarget, "name", "policies", FALSE).uuid

PolicyAdvancedSearched ==
    argv.scantype = "policy-advanced" /\ Len(requests) >= 1 /\ requests[1].ok

\* C27: policy-advanced selects the first policy, in listing order, whose name
\* equals the requested one ignoring case, with no preference for a policy
\* named exactly as requested; the policy check may resolve the same name on
\* the same listing to another policy.
PolicyAdvancedFirstMatch ==
    PolicyAdvancedSearched
    => IF NamedAnyCase = {} THEN uuid = None
       ELSE uuid = PoliciesListed[FirstOf(NamedAnyCase)].uuid

\* C27 happens: the listing holds the requested name in another case first and
\* in the exact case second; policy-advanced took the first and the policy
\* check resolves to the second
PolicyAdvancedFirstMatchWitness ==
    /\ PolicyAdvancedSearched
    /\ Len(PoliciesListed) = 2
    /\ PoliciesListed[1].name # argv.vmtarget /\ PoliciesListed[2].name = argv.vmtarget
    /\ uuid = PoliciesListed[1].uuid
    /\ PolicyCheckSelects = PoliciesListed[2].uuid
    /\ PolicyCheckSelects # uuid

\* ---------------------------------------------------------------------------
\* The buckets of the unassigned check   (check_unassigned 1360-1419)
\* ---------------------------------------------------------------------------

\* C28: in the unassigned check the buckets contribution is computed from the
\* shares listing only: the number of its S3-tagged entries without a policy
\* group when the shares fetch succeeded, and 0 when it failed, whatever the
\* VM listing fetched before it holds.
BucketsFromShares ==
    Returned("check_unassigned")
    => Contribution(4) = HowMany(Fetched(fin.shares), "unassigned bucket")

\* ---------------------------------------------------------------------------
\* The numeric status metric   (check_vm_backup 335-345,
\*                 check_target_health 386-397, check_policy_compliance 461-473)
\* ---------------------------------------------------------------------------

\* the handlers of the vm, vmid, target, archive and policy checks
STATUS_CHECKS ==
    {"check_vm_backup", "check_target_health", "check_archive_status",
     "check_policy_compliance"}

\* the value of the first metric of the result line (backup_status,
\* target_health, archive_status, policy_status)
StatusMetric ==
    LET line == fout.output[1]
    IN  CASE line.fmt \in {"{} has no backups |backup_status=0;;;",
                           "{} has no backups |archive_status=0;;;"} -> 0
          [] line.fmt = "{} is {} |target_health={};;;" -> line.vals[3]
          [] OTHER -> line.vals[4]

\* C29: for the vm, vmid, target, archive and policy checks the numeric status
\* metric of the result is 2 exactly when the exit status is OK, 0 exactly
\* when it is CRITICAL, and 1 when it is WARNING or UNKNOWN.
StatusMetricFollowsExit ==
    (fin.fn \in STATUS_CHECKS /\ fout.kind = "return")
    => /\ StatusMetric = 2 <=> fout.exit_code = EXIT_OK
       /\ StatusMetric = 0 <=> fout.exit_code = EXIT_CRITICAL
       /\ fout.exit_code \in {EXIT_WARNING, EXIT_UNKNOWN} => StatusMetric = 1
       /\ fout.exit_code \in {EXIT_OK, EXIT_WARNING, EXIT_CRITICAL, EXIT_UNKNOWN}

\* C29 happens: a policy reported RED gives CRITICAL with metric 0
StatusMetricFollowsExitWitness ==
    /\ Returned("check_policy_compliance")
    /\ Get(fin.data.entities[1], "compliancyStatus", "UNKNOWN") = "RED"
    /\ fout.exit_code = EXIT_CRITICAL
    /\ StatusMetric = 0

\* ---------------------------------------------------------------------------
\* The archive check without backups   (check_archive_status 408-435)
\* ---------------------------------------------------------------------------

\* C30: the archive check returns CRITICAL 'no backups' with archive_status=0
\* whenever the announced number of backups (0 when absent) is zero, before
\* and whatever the archive counters of a listed backup, so that WARNING
\* ('missing') is returned only when at least one backup exists.
ArchiveNoBackupsFirst ==
    (fin.fn = "check_archive_status" /\ fout.kind # "pending")
    => /\ BackupCount = 0
          => fout = Return(EXIT_CRITICAL,
                           <<Line("{} has no backups |archive_status=0;;;", <<fin.name>>)>>,
                           <<>>)
       /\ (fout.kind = "return" /\ fout.exit_code = EXIT_WARNING) => BackupCount >= 1

\* C30 happens: no backup is announced, the document lists a backup whose
\* counters alone would give MISSING, and the result is CRITICAL
ArchiveNoBackupsFirstWitness ==
    /\ Returned("check_archive_status")
    /\ BackupCount = 0 /\ Len(Entities) = 1
    /\ ArchivesOk = 0 /\ ArchivesFailed = 0
    /\ fout.exit_code = EXIT_CRITICAL
    /\ fout.output[1].fmt = "{} has no backups |archive_status=0;;;"
====
